---- MODULE Spec2Model ----
(***************************************************************************)
(* A model of the weather aggregation and caching engine of hamsfly        *)
(* (apps/hamsalert): the WeatherRecord store, WeatherService's cache       *)
(* lookups and upserts, the retry executor and rate limiter, the           *)
(* fetch-orchestration steps (_get_<source>) and the read-only reader      *)
(* queries.                                                                *)
(*                                                                         *)
(* Conventions.                                                            *)
(*  - Time is an integer number of seconds (timezone.now()).  A calendar   *)
(*    date is the integer day number, local_today = now \div 86400.        *)
(*  - Python's None is -1 where a number is expected (lat, lon,            *)
(*    max_age_seconds) and NoneData where a dict or dataclass is expected. *)
(*    A station that is None and a station that is '' are both the empty   *)
(*    string: the code only ever tests a station for truthiness.           *)
(*  - Latitude and longitude are integers in units of 0.0001 degree, the   *)
(*    tolerance of the coordinate lookup.                                  *)
(*  - timezone.now() in _save_to_db returns a strictly later reading on    *)
(*    every call (microsecond clock): a write advances the clock by one.   *)
(***************************************************************************)
EXTENDS Integers, Sequences, FiniteSets, TLC

VARIABLES
    now,     \* the clock, in seconds
    db,      \* the WeatherRecord table: a set of rows
    call,    \* the operation completed last, with its arguments and result
    th,      \* per writer thread: its position inside _save_to_db
    steps,   \* number of operations performed (bounds the fetch runs)
    wire     \* the times, within the last day, at which a request went out
             \* to Open-Meteo, oldest first (recorded in SpecQuota)

vars == <<now, db, call, th, steps, wire>>

None == -1
NoneData == [none |-> TRUE]

(***************************************************************************)
(* Bounds of the model.                                                    *)
(***************************************************************************)
MaxNow == 3
MaxSteps == 3
MaxTicks == 32
MaxRestarts == 1

(***************************************************************************)
(* models.py: WeatherRecord.  A row is                                     *)
(*   [id, weather_type, target_date, station, latitude, longitude,         *)
(*    data, fetched_at].                                                   *)
(***************************************************************************)
CoordTolerance == 1

FreshId(store) ==
    CHOOSE i \in 0..Cardinality(store) : \A r \in store : r.id # i

\* The five fields of the unique constraint weather_unique_record.
KeyOf(r) ==
    <<r.weather_type, r.target_date, r.station, r.latitude, r.longitude>>

\* A UNIQUE constraint never fires on a row that holds a NULL in one of its
\* columns: NULLs are distinct from each other.
UniqueViolation(store, row) ==
    /\ row.latitude # None
    /\ row.longitude # None
    /\ \E r \in store : KeyOf(r) = KeyOf(row)

\* latitude__range / longitude__range: BETWEEN is never true of a NULL.
InRange(v, c) ==
    /\ v # None
    /\ v >= c - CoordTolerance
    /\ v <= c + CoordTolerance

\* The location filter of _get_from_db.
LocationFilter(r, station, lat, lon) ==
    IF station # ""
    THEN r.station = station
    ELSE IF lat # None /\ lon # None
         THEN InRange(r.latitude, lat) /\ InRange(r.longitude, lon)
         ELSE TRUE

\* AgeFilter with the cutoff left out.
AgeFilterDropped(r, clock, max_age_seconds) ==
    TRUE

\* fetched_at__gte=cutoff, applied only when max_age_seconds is given.
AgeFilter(r, clock, max_age_seconds) ==
    max_age_seconds # None => r.fetched_at >= clock - max_age_seconds

\* first() under the ascending order.
FirstAscending(query) ==
    CHOOSE r \in query : \A q \in query : q.fetched_at >= r.fetched_at

\* order_by('-fetched_at').first() on a non-empty query set.
First(query) ==
    CHOOSE r \in query : \A q \in query : q.fetched_at <= r.fetched_at

_get_from_db(store, clock, weather_type, target_date, station, lat, lon, max_age_seconds) ==
    LET query == {r \in store :
                    /\ r.weather_type = weather_type
                    /\ r.target_date = target_date
                    /\ LocationFilter(r, station, lat, lon)
                    /\ AgeFilter(r, clock, max_age_seconds)}
    IN  IF query = {} THEN NoneData ELSE First(query).data

\* WeatherRecord.objects.create(**lookup, **defaults)
CreateRow(store, weather_type, target_date, station, lat, lon, data, stamp) ==
    store \cup {[id |-> FreshId(store), weather_type |-> weather_type,
                 target_date |-> target_date, station |-> station,
                 latitude |-> lat, longitude |-> lon,
                 data |-> data, fetched_at |-> stamp]}

\* setattr(existing, key, value) for the defaults, then existing.save()
UpdateRow(store, existing, data, stamp) ==
    (store \ {existing})
        \cup {[existing EXCEPT !.data = data, !.fetched_at = stamp]}

\* The rows the manual check of the NULL-coordinate branch looks at.
ExistingNullCoord(store, weather_type, target_date, station) ==
    {r \in store : /\ r.weather_type = weather_type
                   /\ r.target_date = target_date
                   /\ r.station = station
                   /\ r.latitude = None
                   /\ r.longitude = None}

\* The rows update_or_create's get(**lookup) matches (None is IS NULL).
LookupMatches(store, weather_type, target_date, station, lat, lon) ==
    {r \in store :
        KeyOf(r) = <<weather_type, target_date, station, lat, lon>>}

\* A body that inserts without looking for the row.
SaveBodyInsertOnly(store, stamp, weather_type, target_date, data, station, lat, lon) ==
    CreateRow(store, weather_type, target_date, station, lat, lon, data, stamp)

\* What the body of _save_to_db's try block does to the table when run
\* without interruption.  update_or_create updates the single match, creates
\* when there is none, and raises MultipleObjectsReturned when there are
\* several (no write).
SaveBody(store, stamp, weather_type, target_date, data, station, lat, lon) ==
    IF lat = None /\ lon = None
    THEN LET existing ==
                 ExistingNullCoord(store, weather_type, target_date, station)
         IN  IF existing # {}
             THEN UpdateRow(store, First(existing), data, stamp)
             ELSE CreateRow(store, weather_type, target_date, station,
                            lat, lon, data, stamp)
    ELSE LET found == LookupMatches(store, weather_type, target_date,
                                    station, lat, lon)
         IN  IF Cardinality(found) = 1
             THEN UpdateRow(store, First(found), data, stamp)
             ELSE IF found = {}
                  THEN CreateRow(store, weather_type, target_date, station,
                                 lat, lon, data, stamp)
                  ELSE store

\* _save_to_db without its except clause.
_save_to_dbUnguarded(store, stamp, weather_type, target_date, data, station, lat, lon, db_up) ==
    [store  |-> IF db_up
                THEN SaveBody(store, stamp, weather_type, target_date, data,
                              station, lat, lon)
                ELSE store,
     raised |-> ~db_up]

\* _save_to_db as one uninterrupted call.  db_up is whether the store
\* accepts the write; any exception is caught and logged, so the call
\* reports raised = FALSE either way.
_save_to_db(store, stamp, weather_type, target_date, data, station, lat, lon, db_up) ==
    [store  |-> IF db_up
                THEN SaveBody(store, stamp, weather_type, target_date, data,
                              station, lat, lon)
                ELSE store,
     raised |-> FALSE]

(***************************************************************************)
(* The store interface exercised directly: put, get and the passage of     *)
(* time, over keys of every shape the callers use (station only,           *)
(* coordinates only, neither) with two coordinate pairs inside the lookup  *)
(* tolerance of each other.  The payload of a put is the observation taken *)
(* at that instant, so no two puts store equal payloads.                   *)
(***************************************************************************)
Threads == {"w1", "w2"}

Idle == [pc |-> "idle"]

Init ==
    /\ now = 0
    /\ db = {}
    /\ call = [op |-> "init"]
    /\ th = [t \in Threads |-> Idle]
    /\ steps = 0
    /\ wire = <<>>

StoreKinds == {<<"nws", 0>>, <<"metar", 1>>}
StoreLocations ==
    { <<"", None, None>>, <<"KACV", None, None>>,
      <<"", 10, 20>>, <<"", 11, 20>> }
StoreData(clock) == {[observed_at |-> clock]}
MaxAges == {None, 0, 1, 2}

Put(weather_type, target_date, data, station, lat, lon, db_up) ==
    LET saved == _save_to_db(db, now, weather_type, target_date, data, station, lat, lon, db_up)
    IN  /\ now < MaxNow
        /\ db' = saved.store
        /\ now' = now + 1
        /\ call' = [op |-> "_save_to_db", weather_type |-> weather_type,
                    target_date |-> target_date, station |-> station,
                    lat |-> lat, lon |-> lon, data |-> data, db_up |-> db_up,
                    raised |-> saved.raised,
                    existed |-> LookupMatches(db, weather_type, target_date, station, lat, lon) # {}]
        /\ UNCHANGED <<th, steps, wire>>

Get(weather_type, target_date, station, lat, lon, max_age_seconds) ==
    /\ call' = [op |-> "_get_from_db", weather_type |-> weather_type,
                target_date |-> target_date, station |-> station,
                lat |-> lat, lon |-> lon, max_age_seconds |-> max_age_seconds,
                ret |-> _get_from_db(db, now, weather_type, target_date, station, lat, lon, max_age_seconds)]
    /\ UNCHANGED <<now, db, th, steps, wire>>

Tick(d) ==
    /\ now + d <= MaxNow
    /\ now' = now + d
    /\ call' = [op |-> "tick"]
    /\ UNCHANGED <<db, th, steps, wire>>

NextStore ==
    \/ \E kind \in StoreKinds, loc \in StoreLocations, db_up \in BOOLEAN :
          \E data \in StoreData(now) :
              Put(kind[1], kind[2], data, loc[1], loc[2], loc[3], db_up)
    \/ \E kind \in StoreKinds, loc \in StoreLocations, max_age_seconds \in MaxAges :
          Get(kind[1], kind[2], loc[1], loc[2], loc[3], max_age_seconds)
    \/ \E d \in 1..2 : Tick(d)

SpecStore == Init /\ [][NextStore]_vars

\* The key a recorded put or get was called with.
CallKey(c) ==
    <<c.weather_type, c.target_date, c.station, c.lat, c.lon>>

\* The rows a get with the key of c looks at before any age filter: the
\* entries that key designates.
Designated(store, c) ==
    {r \in store : /\ r.weather_type = c.weather_type
                   /\ r.target_date = c.target_date
                   /\ LocationFilter(r, c.station, c.lat, c.lon)}

(***************************************************************************)
(* C3.  A successful put followed at once by a get with the same key and   *)
(* no max_age returns exactly the payload that was put.                    *)
(***************************************************************************)
C3_PutThenGet ==
    [][(/\ call.op = "_save_to_db"
        /\ call.db_up
        /\ call'.op = "_get_from_db"
        /\ CallKey(call') = CallKey(call)
        /\ call'.max_age_seconds = None)
       => call'.ret = call.data]_vars

\* A get with no max_age has just returned the payload of the row a put
\* on the same key wrote one clock reading ago, while an older row that the
\* same lookup also matches is in the table.
C3_Witness ==
    /\ call.op = "_get_from_db"
    /\ call.max_age_seconds = None
    /\ \E r \in db : /\ KeyOf(r) = CallKey(call)
                     /\ r.fetched_at = now - 1
                     /\ call.ret = r.data
                     /\ \E q \in Designated(db, call) : q.fetched_at < r.fetched_at

(***************************************************************************)
(* C4.  Whenever the newest entry a key designates was put longer ago than *)
(* a finite max_age, a get on that key with that max_age returns absent    *)
(* and a get on the same key in the same state with no max_age returns     *)
(* that entry's payload.                                                   *)
(***************************************************************************)
C4_MaxAgeBoundary ==
    [][(/\ call'.op = "_get_from_db"
        /\ call'.max_age_seconds # None
        /\ Designated(db, call') # {}
        /\ call'.max_age_seconds < now - First(Designated(db, call')).fetched_at)
       => /\ call'.ret = NoneData
          /\ _get_from_db(db, now, call'.weather_type, call'.target_date, call'.station, call'.lat, call'.lon, None)
                 = First(Designated(db, call')).data]_vars

\* A get with max_age 1 has returned absent although the key's entry, put
\* two or more seconds ago, is in the table.
C4_Witness ==
    /\ call.op = "_get_from_db"
    /\ call.max_age_seconds = 1
    /\ call.ret = NoneData
    /\ \E r \in db : /\ KeyOf(r) = CallKey(call)
                     /\ now - r.fetched_at >= 2
                     /\ r = First(Designated(db, call))

(***************************************************************************)
(* C5.  After every put the table holds at most one row per key            *)
(* (weather_type, target_date, station, latitude, longitude).  A put to a  *)
(* key that has a row rewrites that row's data and fetch timestamp and     *)
(* adds none; a put to a key that has no row adds one row and leaves the   *)
(* others alone, so the key with neither station nor coordinates is        *)
(* distinct from every key with either.                                    *)
(***************************************************************************)
OneRowPerKey(store) ==
    \A r1, r2 \in store : KeyOf(r1) = KeyOf(r2) => r1 = r2

C5_UpsertPerKey ==
    [][(call'.op = "_save_to_db" /\ call'.db_up)
       => /\ OneRowPerKey(db')
          /\ \E r \in db' : /\ KeyOf(r) = CallKey(call')
                            /\ r.data = call'.data
                            /\ r.fetched_at = now
          /\ {r \in db : KeyOf(r) # CallKey(call')} \subseteq db'
          /\ IF call'.existed
             THEN Cardinality(db') = Cardinality(db)
             ELSE Cardinality(db') = Cardinality(db) + 1]_vars

\* A put has just overwritten the row of the key with neither station nor
\* coordinates while a row of the same kind and date with a station or
\* with coordinates is in the table.
C5_Witness ==
    /\ call.op = "_save_to_db"
    /\ call.db_up
    /\ call.existed
    /\ call.station = "" /\ call.lat = None /\ call.lon = None
    /\ \E r \in Designated(db, call) : r.station # "" \/ r.latitude # None

(***************************************************************************)
(* Concurrent writers.  _save_to_db takes no lock and opens no             *)
(* transaction of its own, so the calls of two threads interleave between  *)
(* their queries.  A writer reads the clock and builds lookup and          *)
(* defaults (SaveBegin); on the NULL-coordinate branch it runs             *)
(* filter(...).first() (CheckExisting) and then existing.save()            *)
(* (SaveExisting) or objects.create() (Create); otherwise                  *)
(* update_or_create runs get() (UocGet), then create() (UocCreate), whose  *)
(* IntegrityError sends it back to get(), then save() (UocSave).           *)
(***************************************************************************)
ConcKinds == {<<"metar", 0>>}
ConcLocations == { <<"KACV", None, None>>, <<"", 10, 20>> }

Writing(pc, weather_type, target_date, data, station, lat, lon, stamp, existing) ==
    [pc |-> pc, weather_type |-> weather_type, target_date |-> target_date,
     data |-> data, station |-> station, lat |-> lat, lon |-> lon,
     stamp |-> stamp, existing |-> existing]

At(t, pc, existing) ==
    [th EXCEPT ![t] = [pc |-> pc, weather_type |-> th[t].weather_type,
                       target_date |-> th[t].target_date, data |-> th[t].data,
                       station |-> th[t].station, lat |-> th[t].lat,
                       lon |-> th[t].lon, stamp |-> th[t].stamp,
                       existing |-> existing]]

Done(t) ==
    [th EXCEPT ![t] = Idle]

\* Model.save() of an instance read earlier: UPDATE ... WHERE id = pk.
SaveInstance(store, id, data, stamp) ==
    {IF r.id = id THEN [r EXCEPT !.data = data, !.fetched_at = stamp] ELSE r :
        r \in store}

SaveBegin(t, weather_type, target_date, data, station, lat, lon) ==
    /\ th[t].pc = "idle"
    /\ steps < MaxSteps
    /\ th' = [th EXCEPT ![t] =
                Writing(IF lat = None /\ lon = None THEN "check_existing" ELSE "uoc_get",
                        weather_type, target_date, data, station, lat, lon, now, None)]
    /\ now' = now + 1
    /\ steps' = steps + 1
    /\ call' = [op |-> "_save_to_db", thread |-> t]
    /\ UNCHANGED <<db, wire>>

CheckExisting(t) ==
    LET existing == ExistingNullCoord(db, th[t].weather_type, th[t].target_date, th[t].station)
    IN  /\ th[t].pc = "check_existing"
        /\ th' = IF existing # {}
                 THEN At(t, "save_existing", First(existing).id)
                 ELSE At(t, "create", None)
        /\ call' = [op |-> "filter.first", thread |-> t]
        /\ UNCHANGED <<now, db, steps, wire>>

SaveExisting(t) ==
    /\ th[t].pc = "save_existing"
    /\ db' = SaveInstance(db, th[t].existing, th[t].data, th[t].stamp)
    /\ th' = Done(t)
    /\ call' = [op |-> "existing.save", thread |-> t]
    /\ UNCHANGED <<now, steps, wire>>

Create(t) ==
    /\ th[t].pc = "create"
    /\ db' = CreateRow(db, th[t].weather_type, th[t].target_date, th[t].station,
                       th[t].lat, th[t].lon, th[t].data, th[t].stamp)
    /\ th' = Done(t)
    /\ call' = [op |-> "objects.create", thread |-> t]
    /\ UNCHANGED <<now, steps, wire>>

UocGet(t) ==
    LET found == LookupMatches(db, th[t].weather_type, th[t].target_date,
                               th[t].station, th[t].lat, th[t].lon)
    IN  /\ th[t].pc = "uoc_get"
        /\ th' = IF found = {}
                 THEN At(t, "uoc_create", None)
                 ELSE IF Cardinality(found) = 1
                      THEN At(t, "uoc_save", First(found).id)
                      ELSE Done(t)
        /\ call' = [op |-> "update_or_create.get", thread |-> t]
        /\ UNCHANGED <<now, db, steps, wire>>

UocCreate(t) ==
    LET row == [weather_type |-> th[t].weather_type, target_date |-> th[t].target_date,
                station |-> th[t].station, latitude |-> th[t].lat, longitude |-> th[t].lon]
    IN  /\ th[t].pc = "uoc_create"
        /\ IF UniqueViolation(db, row)
           THEN /\ th' = At(t, "uoc_get", None)
                /\ UNCHANGED db
           ELSE /\ db' = CreateRow(db, th[t].weather_type, th[t].target_date, th[t].station,
                                   th[t].lat, th[t].lon, th[t].data, th[t].stamp)
                /\ th' = Done(t)
        /\ call' = [op |-> "update_or_create.create", thread |-> t]
        /\ UNCHANGED <<now, steps, wire>>

UocSave(t) ==
    /\ th[t].pc = "uoc_save"
    /\ db' = SaveInstance(db, th[t].existing, th[t].data, th[t].stamp)
    /\ th' = Done(t)
    /\ call' = [op |-> "update_or_create.save", thread |-> t]
    /\ UNCHANGED <<now, steps, wire>>

NextConc ==
    \E t \in Threads :
        \/ \E kind \in ConcKinds, loc \in ConcLocations :
              \E data \in StoreData(now) :
                  SaveBegin(t, kind[1], kind[2], data, loc[1], loc[2], loc[3])
        \/ CheckExisting(t)
        \/ SaveExisting(t)
        \/ Create(t)
        \/ UocGet(t)
        \/ UocCreate(t)
        \/ UocSave(t)

SpecConc == Init /\ [][NextConc]_vars

(***************************************************************************)
(* C6.  Once every concurrent put has returned, each key that has a        *)
(* record has exactly one, the station keys with NULL coordinates          *)
(* included.                                                               *)
(***************************************************************************)
C6_ExactlyOneAfterConcurrentPuts ==
    (\A t \in Threads : th[t].pc = "idle")
        => \A r \in db :
               Cardinality(LookupMatches(db, r.weather_type, r.target_date,
                                         r.station, r.latitude, r.longitude)) = 1

(***************************************************************************)
(* WeatherService.__init__: configuration.  The rate limits are the        *)
(* OPENMETEO_RATE_LIMIT_PER_* settings and the safety margin, in percent,  *)
(* the OPENMETEO_RATE_LIMIT_SAFETY_MARGIN setting, set low enough for a    *)
(* handful of records to reach them.  As with the defaults (600, 5000 and  *)
(* 10000 at 0.9) each limit times the margin is a whole number.            *)
(***************************************************************************)
default_station == "KACV"
nws_location == <<10, 20>>

metar_cache_ttl == 1800
taf_cache_ttl == 3600
nws_cache_ttl == 7200
openmeteo_cache_ttl == 14400
historical_cache_ttl == 86400

max_retries == 3
base_delay == 1
max_delay == 30

rate_limit_per_minute == 2
rate_limit_per_hour == 4
rate_limit_per_day == 6
rate_limit_safety_margin == 50

SecondsPerDay == 86400

\* datetime.now(self.local_timezone).date()
LocalToday(clock) ==
    clock \div SecondsPerDay

Min(a, b) ==
    IF a <= b THEN a ELSE b

\* str.upper() on the station identifiers in use.
Upper(station) ==
    IF station = "kjfk" THEN "KJFK" ELSE station

(***************************************************************************)
(* Exceptions are named by their class; "" is a normal return.             *)
(* RateLimitError is a subclass of WeatherServiceError, ValueError         *)
(* (json.JSONDecodeError) is not.                                          *)
(***************************************************************************)
IsWeatherServiceError(exc) ==
    exc \in {"WeatherServiceError", "RateLimitError"}

(***************************************************************************)
(* The upstream.  A script is what the provider answers to the successive  *)
(* HTTP requests of one fetch; a request beyond the end of the script gets *)
(* the last answer again.  status is the HTTP status, or "timeout"         *)
(* (httpx.TimeoutException) or "error" (httpx.RequestError); body says     *)
(* what a 200 carries: "ok" a well-formed payload with the target in it,   *)
(* "empty" a well-formed payload without it, "bad_fields" JSON of the      *)
(* wrong shape (KeyError, TypeError, IndexError in the parser), "not_json" *)
(* a body response.json() cannot decode.  retry_after is the Retry-After   *)
(* header: absent, the empty string, a number of seconds (any number       *)
(* float() reads, negative ones included) or an HTTP date.                 *)
(***************************************************************************)
Header(kind, seconds) ==
    [kind |-> kind, seconds |-> seconds]

NoHeader == Header("absent", 0)

Response(status, body) ==
    [status |-> status, body |-> body, retry_after |-> NoHeader]

\* A 429 with a Retry-After header.
TooMany(retry_after) ==
    [status |-> "429", body |-> "", retry_after |-> retry_after]

NoResponse == Response("", "")

Nth(script, i) ==
    script[Min(i, Len(script))]

\* A URL, as the labels of its host name and its path.
OpenMeteoForecastUrl ==
    [host |-> <<"api", "open-meteo", "com">>, path |-> "/v1/forecast"]
OpenMeteoArchiveUrl ==
    [host |-> <<"archive-api", "open-meteo", "com">>, path |-> "/v1/archive"]
NwsPointsUrl ==
    [host |-> <<"api", "weather", "gov">>, path |-> "/points"]

\* 'open-meteo.com' in url
is_openmeteo(url) ==
    \E i \in 1..(Len(url.host) - 1) :
        url.host[i] = "open-meteo" /\ url.host[i + 1] = "com"

\* WeatherRecord.objects.filter(weather_type__in=openmeteo_types,
\*                              fetched_at__gte=since).count()
CountSince(store, since) ==
    Cardinality({r \in store :
                    /\ r.weather_type \in {"openmeteo", "hourly", "historical"}
                    /\ r.fetched_at >= since})

\* int(limit * self.rate_limit_safety_margin)
Threshold(limit) ==
    (limit * rate_limit_safety_margin) \div 100

_check_rate_limitStrict(store, clock) ==
    IF CountSince(store, clock - 60) > Threshold(rate_limit_per_minute)
    THEN FALSE
    ELSE IF CountSince(store, clock - 3600) > Threshold(rate_limit_per_hour)
         THEN FALSE
         ELSE IF CountSince(store, clock - SecondsPerDay) > Threshold(rate_limit_per_day)
              THEN FALSE
              ELSE TRUE

_check_rate_limit(store, clock) ==
    IF CountSince(store, clock - 60) >= Threshold(rate_limit_per_minute)
    THEN FALSE
    ELSE IF CountSince(store, clock - 3600) >= Threshold(rate_limit_per_hour)
         THEN FALSE
         ELSE IF CountSince(store, clock - SecondsPerDay) >= Threshold(rate_limit_per_day)
              THEN FALSE
              ELSE TRUE

RECURSIVE Pow2(_)
Pow2(n) ==
    IF n = 0 THEN 1 ELSE 2 * Pow2(n - 1)

\* jitter is the value random.uniform(0, base_delay) returned, in seconds.
_calculate_backoff_delayUncapped(attempt, jitter) ==
    base_delay * Pow2(attempt) + jitter

_calculate_backoff_delay(attempt, jitter) ==
    Min(base_delay * Pow2(attempt) + jitter, max_delay)

\* What a call of the retry executor did: the exception it raised, the
\* response it returned, the seconds it slept and the trace of its events:
\* "limit" (rate limiter consulted) and "http" (request sent), each "http"
\* followed by the status that request ended with.
Outcome(raised, response, slept, trace) ==
    [raised |-> raised, response |-> response, slept |-> slept, trace |-> trace]

\* client.get(...): the request and how it ended.
Sent(trace, response) ==
    trace \o <<"http", response.status>>

\* The delay before the retry that follows the answer to attempt: for a
\* 429, the Retry-After header if it is not empty and float() reads it,
\* capped at max_delay; the backoff delay in every other case.
RetryDelayUncapped(response, attempt, jitter) ==
    IF response.status = "429" /\ response.retry_after.kind = "seconds"
    THEN response.retry_after.seconds
    ELSE _calculate_backoff_delay(attempt, jitter)

RetryDelay(response, attempt, jitter) ==
    IF response.status = "429"
    THEN IF response.retry_after.kind \in {"absent", "empty"}
         THEN _calculate_backoff_delay(attempt, jitter)
         ELSE IF response.retry_after.kind = "seconds"
              THEN Min(response.retry_after.seconds, max_delay)
              ELSE _calculate_backoff_delay(attempt, jitter)
    ELSE _calculate_backoff_delay(attempt, jitter)

\* The for loop of _make_request_with_retry from the given attempt on.
\* time.sleep raises ValueError for a negative delay, and no except clause
\* of the loop catches it.
RECURSIVE RetryLoop(_, _, _, _, _)
RetryLoop(script, jitter, attempt, slept, trace) ==
    LET response == Nth(script, attempt + 1)
        sent == Sent(trace, response)
        delay == RetryDelay(response, attempt, jitter)
    IN  IF response.status \in {"429", "timeout", "error"}
        THEN IF attempt < max_retries
             THEN IF delay < 0
                  THEN Outcome("ValueError", NoResponse, slept, sent)
                  ELSE RetryLoop(script, jitter, attempt + 1, slept + delay, sent)
             ELSE Outcome("WeatherServiceError", NoResponse, slept, sent)
        ELSE Outcome("", response, slept, sent)

\* The executor with the limiter consulted after the requests were sent.
_make_request_with_retryLimitLast(store, clock, url, script, jitter) ==
    LET looped == RetryLoop(script, jitter, 0, 0, <<>>)
    IN  IF is_openmeteo(url) /\ ~_check_rate_limit(store, clock)
        THEN Outcome("RateLimitError", NoResponse, looped.slept, looped.trace)
        ELSE looped

_make_request_with_retry(store, clock, url, script, jitter) ==
    IF is_openmeteo(url) /\ ~_check_rate_limit(store, clock)
    THEN Outcome("RateLimitError", NoResponse, 0, <<"limit">>)
    ELSE RetryLoop(script, jitter, 0, 0,
                   IF is_openmeteo(url) THEN <<"limit">> ELSE <<>>)

\* The positions of an event in a trace.
Events(trace, event) ==
    {i \in DOMAIN trace : trace[i] = event}

\* The number of requests a call sent.
Attempts(c) ==
    Cardinality(Events(c.fetched.trace, "http"))

\* How long after the start of the executor's loop attempt number i goes
\* out: after the sleeps that followed the attempts before it.
RECURSIVE SentAt(_, _, _)
SentAt(script, jitter, i) ==
    IF i = 0
    THEN 0
    ELSE SentAt(script, jitter, i - 1) + RetryDelay(Nth(script, i), i - 1, jitter)

\* The requests seen on the wire once a call that started at start and
\* sent n requests is over: those of the last day.
Wire(log, start, script, jitter, n, clock) ==
    SelectSeq(log \o [i \in 1..n |-> start + SentAt(script, jitter, i - 1)],
              LAMBDA at : at >= clock - SecondsPerDay)

\* The step just taken was a call that may have sent requests to Open-Meteo.
Record(script, jitter) ==
    wire' = Wire(wire, now, script, jitter, Attempts(call'), now')

\* The step just taken sent nothing.
Elapse ==
    wire' = Wire(wire, now, <<>>, 0, 0, now')

(***************************************************************************)
(* Normalized records.  A provider's dataclass is its payload fields, the  *)
(* cache flag from_cache and the timestamp cached_at.  _serialize_*_data   *)
(* keeps the payload only; _deserialize_*_data rebuilds the dataclass with *)
(* from_cache=True and cached_at=timezone.now().                           *)
(***************************************************************************)
Parsed(weather_type, target_date, clock) ==
    [payload |-> [weather_type |-> weather_type, target_date |-> target_date,
                  observed_at |-> clock],
     from_cache |-> FALSE, cached_at |-> clock]

Serialize(data) ==
    data.payload

Deserialize(stored, clock) ==
    [payload |-> stored, from_cache |-> TRUE, cached_at |-> clock]

(***************************************************************************)
(* Provider fetchers.  Each returns the exception it raised, the record it *)
(* parsed (NoneData for None), the seconds it slept and its trace.         *)
(***************************************************************************)
Fetched(raised, data, slept, trace) ==
    [raised |-> raised, data |-> data, slept |-> slept, trace |-> trace]

\* response.json() followed by _parse_<source>_response.  parses_empty is
\* whether the parser returns None for a payload without the target.
ParseBody(body, parses_empty, weather_type, target_date, clock, slept, trace) ==
    IF body = "not_json"
    THEN Fetched("ValueError", NoneData, slept, trace)
    ELSE IF body = "bad_fields"
         THEN Fetched("WeatherServiceError", NoneData, slept, trace)
         ELSE IF body = "empty" /\ parses_empty
              THEN Fetched("", NoneData, slept, trace)
              ELSE Fetched("", Parsed(weather_type, target_date, clock), slept, trace)

\* The AVWX fetchers: one request, no retry.
FetchAvwx(api_token, script, parses_empty, weather_type, target_date, clock) ==
    LET response == Nth(script, 1)
    IN  IF api_token = ""
        THEN Fetched("WeatherServiceError", NoneData, 0, <<>>)
        ELSE IF response.status = "404"
             THEN Fetched("", NoneData, 0, Sent(<<>>, response))
             ELSE IF response.status # "200"
                  THEN Fetched("WeatherServiceError", NoneData, 0, Sent(<<>>, response))
                  ELSE ParseBody(response.body, parses_empty, weather_type,
                                 target_date, clock, 0, Sent(<<>>, response))

_fetch_metar_from_api(api_token, script, target_date, clock) ==
    FetchAvwx(api_token, script, FALSE, "metar", target_date, clock)

_fetch_taf_from_api(api_token, script, target_date, clock) ==
    FetchAvwx(api_token, script, TRUE, "taf", target_date, clock)

\* Two requests: the points endpoint, whose payload names the forecast URL
\* unless it is "empty", then the forecast.
_fetch_nws_forecast(script, target_date, clock) ==
    LET points == Nth(script, 1)
        forecast == Nth(script, 2)
        first == Sent(<<>>, points)
        second == Sent(first, forecast)
    IN  IF points.status # "200"
        THEN Fetched("WeatherServiceError", NoneData, 0, first)
        ELSE IF points.body = "not_json"
             THEN Fetched("ValueError", NoneData, 0, first)
             ELSE IF points.body # "ok"
                  THEN Fetched("WeatherServiceError", NoneData, 0, first)
                  ELSE IF forecast.status # "200"
                       THEN Fetched("WeatherServiceError", NoneData, 0, second)
                       ELSE ParseBody(forecast.body, TRUE, "nws", target_date,
                                      clock, 0, second)

\* The Open-Meteo fetchers: the retry executor, then the status check, then
\* response.json() and the parser.
FetchOpenMeteo(store, clock, url, script, jitter, weather_type, target_date) ==
    LET made == _make_request_with_retry(store, clock, url, script, jitter)
    IN  IF made.raised # ""
        THEN Fetched(made.raised, NoneData, made.slept, made.trace)
        ELSE IF made.response.status # "200"
             THEN Fetched("WeatherServiceError", NoneData, made.slept, made.trace)
             ELSE ParseBody(made.response.body, TRUE, weather_type, target_date,
                            clock + made.slept, made.slept, made.trace)

_fetch_openmeteo_forecast(store, clock, script, jitter, target_date) ==
    FetchOpenMeteo(store, clock, OpenMeteoForecastUrl, script, jitter, "openmeteo", target_date)

_fetch_hourly_forecast(store, clock, script, jitter, target_date) ==
    FetchOpenMeteo(store, clock, OpenMeteoForecastUrl, script, jitter, "hourly", target_date)

_fetch_historical_weather(store, clock, script, jitter, target_date) ==
    FetchOpenMeteo(store, clock, OpenMeteoArchiveUrl, script, jitter, "historical", target_date)

(***************************************************************************)
(* The fetch-orchestration step shared by _get_metar, _get_taf,            *)
(* _get_nws_forecast, _get_openmeteo_forecast, get_hourly_forecast and     *)
(* _get_historical_weather: 1. a lookup bounded by the TTL; 2. on a miss   *)
(* the fetch and, for a record, the save; 3. on WeatherServiceError the    *)
(* lookup of any age, and the exception again if that misses too.          *)
(* fetched is what the provider fetcher does when called.                  *)
(***************************************************************************)
Step(ret, raised, store, clock, hit, fetched, write) ==
    [ret |-> ret, raised |-> raised, store |-> store, clock |-> clock,
     hit |-> hit, fetched |-> fetched, write |-> write]

NotFetched == Fetched("", NoneData, 0, <<>>)

\* The step without its lookups: fetch and save only.
GetWithCacheSkipLookup(store, clock, weather_type, target_date, station, lat, lon, ttl, fetched, db_up) ==
    LET after == clock + fetched.slept
        saved == _save_to_db(store, after, weather_type, target_date,
                             Serialize(fetched.data), station, lat, lon, db_up)
    IN  IF fetched.raised = "" /\ fetched.data # NoneData
        THEN Step(fetched.data, "", saved.store, after + 1, FALSE, fetched,
                  IF db_up THEN "saved" ELSE "failed")
        ELSE Step(NoneData, fetched.raised, store, after, FALSE, fetched, "none")

GetWithCache(store, clock, weather_type, target_date, station, lat, lon, ttl, fetched, db_up) ==
    LET db_data == _get_from_db(store, clock, weather_type, target_date, station, lat, lon, ttl)
        after == clock + fetched.slept
        saved == _save_to_db(store, after, weather_type, target_date,
                             Serialize(fetched.data), station, lat, lon, db_up)
        stale_data == _get_from_db(store, after, weather_type, target_date, station, lat, lon, None)
    IN  IF db_data # NoneData
        THEN Step(Deserialize(db_data, clock), "", store, clock, TRUE, NotFetched, "none")
        ELSE IF fetched.raised = ""
             THEN IF fetched.data # NoneData
                  THEN IF saved.raised
                       THEN Step(NoneData, "Exception", saved.store, after + 1, FALSE, fetched, "raised")
                       ELSE Step(fetched.data, "", saved.store, after + 1, FALSE, fetched,
                                 IF db_up THEN "saved" ELSE "failed")
                  ELSE Step(NoneData, "", store, after, FALSE, fetched, "none")
             ELSE IF IsWeatherServiceError(fetched.raised) /\ stale_data # NoneData
                  THEN Step(Deserialize(stale_data, after), "", store, after, FALSE, fetched, "none")
                  ELSE Step(NoneData, fetched.raised, store, after, FALSE, fetched, "none")

(***************************************************************************)
(* The reader queries: look-ups of any age, nothing else.                  *)
(***************************************************************************)
Sources == {"metar", "taf", "nws", "openmeteo", "historical"}

\* The providers get_weather_from_db consults for a date days_out days
\* from today.
Applicable(days_out) ==
    IF days_out < 0
    THEN {"historical"}
    ELSE (IF days_out = 0 THEN {"metar"} ELSE {})
         \cup (IF days_out <= 1 THEN {"taf"} ELSE {})
         \cup (IF 2 <= days_out /\ days_out <= 7 THEN {"nws"} ELSE {})
         \cup (IF days_out <= 15 THEN {"openmeteo"} ELSE {})

\* One look-up of the reader and the deserialization of what it finds.
ReaderEntry(store, clock, weather_type, target_date, station) ==
    LET db_data ==
            IF weather_type \in {"metar", "taf"}
            THEN _get_from_db(store, clock, weather_type, target_date, station, None, None, None)
            ELSE _get_from_db(store, clock, weather_type, target_date, "",
                              nws_location[1], nws_location[2], None)
    IN  IF db_data # NoneData THEN Deserialize(db_data, clock) ELSE NoneData

\* The emptiness test left out.
HasDataAlways(results) ==
    TRUE

\* any(results.values())
HasData(results) ==
    \E k \in Sources : results[k] # NoneData

PrimarySource(results) ==
    IF results["metar"] # NoneData THEN "metar"
    ELSE IF results["taf"] # NoneData THEN "taf"
    ELSE IF results["nws"] # NoneData THEN "nws"
    ELSE IF results["openmeteo"] # NoneData THEN "openmeteo"
    ELSE IF results["historical"] # NoneData THEN "historical"
    ELSE "unavailable"

\* What a reader query did: its result, the exception it raised, the table
\* it left and the trace of upstream events it caused.
Read(ret, raised, store, trace) ==
    [ret |-> ret, raised |-> raised, store |-> store, trace |-> trace]

\* A reader that goes through the cache-then-fetch step.
get_weather_from_dbFetching(store, clock, target_date, station_in) ==
    LET got == GetWithCache(store, clock, "openmeteo", target_date, "",
                            nws_location[1], nws_location[2], openmeteo_cache_ttl,
                            Fetched("", Parsed("openmeteo", target_date, clock), 0, <<"http">>),
                            TRUE)
    IN  Read(got.ret, got.raised, got.store, got.fetched.trace)

get_weather_from_db(store, clock, target_date, station_in) ==
    LET station == Upper(IF station_in # "" THEN station_in ELSE default_station)
        days_out == target_date - LocalToday(clock)
        results == [k \in Sources |->
                       IF k \in Applicable(days_out)
                       THEN ReaderEntry(store, clock, k, target_date, station)
                       ELSE NoneData]
    IN  IF ~HasData(results)
        THEN Read(NoneData, "", store, <<>>)
        ELSE Read([target_date |-> target_date, metar |-> results["metar"],
                   taf |-> results["taf"], nws |-> results["nws"],
                   openmeteo |-> results["openmeteo"],
                   historical |-> results["historical"],
                   cached_at |-> clock, source |-> PrimarySource(results)],
                  "", store, <<>>)

get_hourly_from_db(store, clock, target_date) ==
    Read(ReaderEntry(store, clock, "hourly", target_date, ""), "", store, <<>>)

(***************************************************************************)
(* Actions of the service.  Every call is one step: views, poller and      *)
(* administrative actions call the service from one thread at a time here  *)
(* (the interleaving of writers is SpecConc).  A save takes one second of  *)
(* the clock, a sleep of the retry executor as long as it sleeps.          *)
(***************************************************************************)
Orchestrate(op, weather_type, target_date, station, lat, lon, ttl, fetched, db_up) ==
    LET got == GetWithCache(db, now, weather_type, target_date, station, lat, lon, ttl, fetched, db_up)
    IN  /\ steps < MaxSteps
        /\ db' = got.store
        /\ now' = got.clock
        /\ steps' = steps + 1
        /\ call' = [op |-> op, weather_type |-> weather_type,
                    target_date |-> target_date, station |-> station,
                    lat |-> lat, lon |-> lon, max_age_seconds |-> ttl,
                    ret |-> got.ret, raised |-> got.raised, hit |-> got.hit,
                    fetched |-> got.fetched, write |-> got.write]
        /\ UNCHANGED th

_get_metar(station_in, api_token, script, db_up) ==
    LET station == Upper(IF station_in # "" THEN station_in ELSE default_station)
        local_today == LocalToday(now)
    IN  /\ Orchestrate("_get_metar", "metar", local_today, station, None, None, metar_cache_ttl,
                       _fetch_metar_from_api(api_token, script, local_today, now), db_up)
        /\ UNCHANGED wire

_get_taf(station_in, target_date, api_token, script, db_up) ==
    LET station == Upper(IF station_in # "" THEN station_in ELSE default_station)
    IN  /\ Orchestrate("_get_taf", "taf", target_date, station, None, None, taf_cache_ttl,
                       _fetch_taf_from_api(api_token, script, target_date, now), db_up)
        /\ UNCHANGED wire

_get_nws_forecast(target_date, script, db_up) ==
    /\ Orchestrate("_get_nws_forecast", "nws", target_date, "", nws_location[1], nws_location[2],
                   nws_cache_ttl, _fetch_nws_forecast(script, target_date, now), db_up)
    /\ UNCHANGED wire

_get_openmeteo_forecast(target_date, script, jitter, db_up) ==
    Orchestrate("_get_openmeteo_forecast", "openmeteo", target_date, "",
                nws_location[1], nws_location[2], openmeteo_cache_ttl,
                _fetch_openmeteo_forecast(db, now, script, jitter, target_date), db_up)

get_hourly_forecast(target_date, script, jitter, db_up) ==
    Orchestrate("get_hourly_forecast", "hourly", target_date, "",
                nws_location[1], nws_location[2], openmeteo_cache_ttl,
                _fetch_hourly_forecast(db, now, script, jitter, target_date), db_up)

_get_historical_weather(target_date, script, jitter, db_up) ==
    Orchestrate("_get_historical_weather", "historical", target_date, "",
                nws_location[1], nws_location[2], historical_cache_ttl,
                _fetch_historical_weather(db, now, script, jitter, target_date), db_up)

\* The retry executor called on its own, as the tests of the rate limiter do.
MakeRequest(url, script, jitter) ==
    LET made == _make_request_with_retry(db, now, url, script, jitter)
    IN  /\ steps < MaxSteps
        /\ now' = now + made.slept
        /\ steps' = steps + 1
        /\ call' = [op |-> "_make_request_with_retry", url |-> url,
                    script |-> script, jitter |-> jitter,
                    response |-> made.response, raised |-> made.raised, hit |-> FALSE,
                    fetched |-> Fetched(made.raised, NoneData, made.slept, made.trace),
                    write |-> "none"]
        /\ UNCHANGED <<db, th>>

Reader(op, target_date, station_in, read) ==
    /\ steps < MaxSteps
    /\ db' = read.store
    /\ steps' = steps + 1
    /\ call' = [op |-> op, target_date |-> target_date, station |-> station_in,
                ret |-> read.ret, raised |-> read.raised, hit |-> FALSE,
                fetched |-> Fetched("", NoneData, 0, read.trace), write |-> "none"]
    /\ UNCHANGED <<now, th, wire>>

GetWeatherFromDb(target_date, station_in) ==
    Reader("get_weather_from_db", target_date, station_in,
           get_weather_from_db(db, now, target_date, station_in))

GetHourlyFromDb(target_date) ==
    Reader("get_hourly_from_db", target_date, "",
           get_hourly_from_db(db, now, target_date))

Advance(d) ==
    /\ steps < MaxSteps
    /\ now' = now + d
    /\ steps' = steps + 1
    /\ call' = [op |-> "advance"]
    /\ UNCHANGED <<db, th>>

(***************************************************************************)
(* Fetch orchestration against an upstream that answers, refuses, times    *)
(* out or sends bodies that do not parse, with a store that may be down.   *)
(***************************************************************************)
Ok == Response("200", "ok")

DirectScripts ==
    { <<Ok>>, <<Response("200", "empty")>>, <<Response("200", "bad_fields")>>,
      <<Response("200", "not_json")>>, <<Response("404", "")>>,
      <<Response("429", "")>>, <<Response("500", "")>>,
      <<Response("timeout", "")>> }

NwsScripts ==
    DirectScripts \cup { <<Ok, Response("500", "")>>, <<Ok, Response("200", "empty")>>,
                         <<Ok, Response("200", "not_json")>> }

RetryScripts ==
    { <<Ok>>, <<Response("200", "empty")>>, <<Response("200", "bad_fields")>>,
      <<Response("200", "not_json")>>, <<Response("404", "")>>,
      <<Response("429", "")>>, <<Response("timeout", "")>>,
      <<Response("429", ""), Ok>>,
      <<Response("429", ""), Response("timeout", ""), Response("error", ""), Ok>> }

\* The AVWX token is configured or not; without it no request is sent, so
\* one script stands for all.
TokenCases ==
    {<<"token", script>> : script \in DirectScripts} \cup {<<"", <<Ok>>>>}

\* The jitter is drawn only when a retry is slept for.
Jitters(script) ==
    IF \E i \in DOMAIN script : script[i].status \in {"429", "timeout", "error"}
    THEN {0, 1}
    ELSE {0}

\* The store is up or down; it is asked only when the script ends in a
\* record to save.
StoreStates(script) ==
    IF script[Len(script)].status = "200" /\ script[Len(script)].body \in {"ok", "empty"}
    THEN BOOLEAN
    ELSE {TRUE}

FetchDates == {2}
AdvanceSteps == {14400, 86400}
RequestUrls == {OpenMeteoForecastUrl, OpenMeteoArchiveUrl, NwsPointsUrl}
RequestScripts == { <<Ok>>, <<Response("timeout", "")>> }

NextFetch ==
    \/ \E case \in TokenCases : \E db_up \in StoreStates(case[2]) :
          _get_metar("", case[1], case[2], db_up)
    \/ \E target_date \in FetchDates, case \in TokenCases : \E db_up \in StoreStates(case[2]) :
          _get_taf("", target_date, case[1], case[2], db_up)
    \/ \E target_date \in FetchDates, script \in NwsScripts : \E db_up \in StoreStates(script) :
          _get_nws_forecast(target_date, script, db_up)
    \/ \E target_date \in FetchDates, script \in RetryScripts :
          \E jitter \in Jitters(script), db_up \in StoreStates(script) :
              _get_openmeteo_forecast(target_date, script, jitter, db_up) /\ UNCHANGED wire
    \/ \E target_date \in FetchDates, script \in RetryScripts :
          \E jitter \in Jitters(script), db_up \in StoreStates(script) :
              get_hourly_forecast(target_date, script, jitter, db_up) /\ UNCHANGED wire
    \/ \E target_date \in FetchDates, script \in RetryScripts :
          \E jitter \in Jitters(script), db_up \in StoreStates(script) :
              _get_historical_weather(target_date, script, jitter, db_up) /\ UNCHANGED wire
    \/ \E url \in RequestUrls, script \in RequestScripts : \E jitter \in Jitters(script) :
          MakeRequest(url, script, jitter) /\ UNCHANGED wire
    \/ \E d \in AdvanceSteps : Advance(d) /\ UNCHANGED wire

SpecFetch == Init /\ [][NextFetch]_vars

OrchestrationOps ==
    {"_get_metar", "_get_taf", "_get_nws_forecast", "_get_openmeteo_forecast",
     "get_hourly_forecast", "_get_historical_weather"}

OpenMeteoOps ==
    {"_get_openmeteo_forecast", "get_hourly_forecast", "_get_historical_weather"}

ReaderOps == {"get_weather_from_db", "get_hourly_from_db"}

(***************************************************************************)
(* C7.  A fetch-orchestration step that fetched a record and went to save  *)
(* it gets no exception from _save_to_db and returns that record, not      *)
(* flagged as cached, whether the store took the write or not; when the    *)
(* store did not, the table is as it was.                                  *)
(***************************************************************************)
C7_SaveFailureSwallowed ==
    [][(call'.op \in OrchestrationOps /\ call'.write # "none")
       => /\ call'.write \in {"saved", "failed"}
          /\ call'.raised = ""
          /\ call'.ret # NoneData
          /\ call'.ret = call'.fetched.data
          /\ ~call'.ret.from_cache
          /\ (call'.write = "failed" => db' = db)]_vars

\* A step has returned the record it fetched although the store refused
\* the write.
C7_Witness ==
    /\ call.op \in OrchestrationOps
    /\ call.write = "failed"
    /\ call.raised = ""
    /\ call.ret # NoneData

(***************************************************************************)
(* C8.  In every fetch-orchestration step, whatever error the provider     *)
(* fetcher or the retry executor ends with (transport, HTTP status, rate   *)
(* limit, or a payload that does not parse): if the key has an entry of    *)
(* any age the step returns it flagged as cached and raises nothing; only  *)
(* if it has none does the error reach the caller.                         *)
(***************************************************************************)
C8_ErrorBecomesStaleLookup ==
    [][(call'.op \in OrchestrationOps /\ ~call'.hit /\ call'.fetched.raised # "")
       => IF Designated(db, call') # {}
          THEN /\ call'.raised = ""
               /\ call'.ret = Deserialize(First(Designated(db, call')).data, now')
               /\ call'.ret.from_cache
          ELSE call'.raised = call'.fetched.raised]_vars

(***************************************************************************)
(* C9.  When the key has an entry fetched within the provider's TTL, the   *)
(* fetch-orchestration step returns that entry flagged as cached, sends    *)
(* nothing upstream, consults no limiter and writes nothing.               *)
(***************************************************************************)
C9_FreshEntryServed ==
    [][(/\ call'.op \in OrchestrationOps
        /\ \E r \in Designated(db, call') : r.fetched_at >= now - call'.max_age_seconds)
       => /\ call'.hit
          /\ call'.raised = ""
          /\ call'.ret = Deserialize(First(Designated(db, call')).data, now)
          /\ call'.ret.from_cache
          /\ call'.fetched.trace = <<>>
          /\ call'.write = "none"
          /\ db' = db
          /\ now' = now]_vars

\* A step has been served from the store by an entry that is not new: the
\* clock has moved on since it was fetched, and the upstream was ready to
\* answer.
C9_Witness ==
    /\ call.op \in OrchestrationOps
    /\ call.hit
    /\ call.ret.from_cache
    /\ \E r \in Designated(db, call) : /\ r.data = call.ret.payload
                                       /\ now - r.fetched_at > 1

(***************************************************************************)
(* C10.  A call of the retry executor consults the rate limiter exactly    *)
(* when the request goes to Open-Meteo, once, before any request is sent.  *)
(* If the limiter refuses, the call ends with RateLimitError having sent   *)
(* no request and slept for no retry; if it allows, the call sends at      *)
(* least one request and does not end with RateLimitError.  A request to   *)
(* another provider, through the executor or not, consults no limiter and  *)
(* never ends with RateLimitError.                                         *)
(***************************************************************************)
SharedQuota(c) ==
    \/ c.op \in OpenMeteoOps
    \/ c.op = "_make_request_with_retry" /\ c.url \in {OpenMeteoForecastUrl, OpenMeteoArchiveUrl}

C10_LimiterBeforeFirstAttempt ==
    [][(call'.op \in OrchestrationOps \cup {"_make_request_with_retry"} /\ ~call'.hit)
       => LET t == call'.fetched.trace
              raised == call'.fetched.raised
          IN  IF SharedQuota(call')
              THEN /\ t # <<>>
                   /\ Events(t, "limit") = {1}
                   /\ IF _check_rate_limit(db, now)
                      THEN raised # "RateLimitError" /\ Events(t, "http") # {}
                      ELSE /\ raised = "RateLimitError"
                           /\ Events(t, "http") = {}
                           /\ call'.fetched.slept = 0
              ELSE /\ Events(t, "limit") = {}
                   /\ raised # "RateLimitError"]_vars

\* The limiter has refused an Open-Meteo request of a fetch-orchestration
\* step: RateLimitError and nothing sent.
C10_Witness ==
    /\ call.op \in OpenMeteoOps
    /\ ~call.hit
    /\ call.fetched.raised = "RateLimitError"
    /\ call.fetched.trace = <<"limit">>

(***************************************************************************)
(* C12.  In every fetch-orchestration step whose provider answers a        *)
(* request with 404 (not found), the provider fetcher returns None and     *)
(* raises nothing, and the 404 is the end of it: no request follows and    *)
(* nothing is slept for a retry.                                           *)
(***************************************************************************)
NotFound(c) ==
    \E i \in DOMAIN c.fetched.trace : c.fetched.trace[i] = "404"

C12_NotFoundIsEmpty ==
    [][(call'.op \in OrchestrationOps /\ ~call'.hit /\ NotFound(call'))
       => /\ call'.fetched.raised = ""
          /\ call'.fetched.data = NoneData
          /\ call'.fetched.trace[Len(call'.fetched.trace)] = "404"
          /\ call'.fetched.slept = 0]_vars

(***************************************************************************)
(* The readers over a store filled by successful fetches for today and     *)
(* later dates, for the default and another station, as days go by.        *)
(***************************************************************************)
ReadStations == {"", "kjfk"}
ReadDates == {0, 2}
UnpolledDate == 17

NextRead ==
    \/ \E station_in \in ReadStations : _get_metar(station_in, "token", <<Ok>>, TRUE)
    \/ \E station_in \in ReadStations, target_date \in ReadDates :
          _get_taf(station_in, target_date, "token", <<Ok>>, TRUE)
    \/ \E target_date \in ReadDates : _get_nws_forecast(target_date, <<Ok>>, TRUE)
    \/ \E target_date \in ReadDates :
          _get_openmeteo_forecast(target_date, <<Ok>>, 0, TRUE) /\ UNCHANGED wire
    \/ \E target_date \in ReadDates :
          get_hourly_forecast(target_date, <<Ok>>, 0, TRUE) /\ UNCHANGED wire
    \/ \E target_date \in ReadDates :
          _get_historical_weather(target_date, <<Ok>>, 0, TRUE) /\ UNCHANGED wire
    \/ \E target_date \in ReadDates \cup {UnpolledDate}, station_in \in ReadStations :
          GetWeatherFromDb(target_date, station_in)
    \/ \E target_date \in ReadDates \cup {UnpolledDate} : GetHourlyFromDb(target_date)
    \/ \E d \in AdvanceSteps : Advance(d) /\ UNCHANGED wire

SpecRead == Init /\ [][NextRead]_vars

(***************************************************************************)
(* C1.  A reader query, get_weather_from_db or get_hourly_from_db, leaves  *)
(* the table exactly as it was and causes no upstream event: no request    *)
(* sent, no limiter consulted, no write attempted.                         *)
(***************************************************************************)
C1_ReaderReadOnly ==
    [][call'.op \in ReaderOps
       => /\ db' = db
          /\ call'.fetched.trace = <<>>
          /\ call'.write = "none"]_vars

\* A reader has come back empty-handed from a table that holds records:
\* the case in which a fetch on miss would have gone upstream.
C1_Witness ==
    /\ call.op \in ReaderOps
    /\ call.ret = NoneData
    /\ db # {}

(***************************************************************************)
(* C2.  When the table holds no entry for date D of any provider the       *)
(* reader consults for D, the reader returns none and raises nothing.      *)
(***************************************************************************)
Consulted(c, clock) ==
    IF c.op = "get_hourly_from_db"
    THEN {"hourly"}
    ELSE Applicable(c.target_date - LocalToday(clock))

C2_NotPolledIsNone ==
    [][(/\ call'.op \in ReaderOps
        /\ \A r \in db : ~(/\ r.target_date = call'.target_date
                           /\ r.weather_type \in Consulted(call', now)))
       => /\ call'.ret = NoneData
          /\ call'.raised = ""]_vars

\* get_weather_from_db has returned none for a date that has an entry,
\* but of a provider it does not consult for that date.
C2_Witness ==
    /\ call.op = "get_weather_from_db"
    /\ call.ret = NoneData
    /\ call.raised = ""
    /\ \E r \in db : r.target_date = call.target_date

(***************************************************************************)
(* The retry executor on its own against every kind of answer: statuses    *)
(* that are retried and statuses that are not, 429s with and without a     *)
(* Retry-After header, scripts that recover after one, two or three        *)
(* retries and scripts that never do.                                      *)
(***************************************************************************)
MaxCalls == 2

Retryable == {"429", "timeout", "error"}

Busy == Response("429", "")
TimedOut == Response("timeout", "")
Failed == Response("error", "")

RetryAfterCases ==
    { Header("empty", 0), Header("seconds", 0), Header("seconds", 5),
      Header("seconds", 40), Header("seconds", 0 - 1), Header("date", 0) }

ExecutorScripts ==
    { <<Ok>>, <<Response("404", "")>>, <<Response("500", "")>>,
      <<Busy>>, <<TimedOut>>, <<Failed>>,
      <<Busy, Ok>>, <<TimedOut, Ok>>, <<Failed, Ok>>,
      <<Busy, TimedOut, Ok>>, <<TimedOut, Failed, Busy, Ok>>,
      <<Busy, Busy, Busy, Response("404", "")>>,
      <<Busy, Busy, Busy, TooMany(Header("seconds", 0 - 1))>>,
      <<Busy, TimedOut, Failed, Busy, Ok>>,
      <<TooMany(Header("seconds", 5)), TooMany(Header("seconds", 40)), Ok>> }
    \cup { <<TooMany(h), Ok>> : h \in RetryAfterCases }
    \cup { <<TooMany(h)>> : h \in RetryAfterCases }

ExecutorUrls == {OpenMeteoForecastUrl, NwsPointsUrl}

\* _calculate_backoff_delay called on its own, as its tests do, for attempt
\* numbers beyond those the executor reaches.
MaxAttempt == 6

CalculateBackoffDelay(attempt, jitter) ==
    /\ steps < MaxCalls
    /\ steps' = steps + 1
    /\ call' = [op |-> "_calculate_backoff_delay", attempt |-> attempt, jitter |-> jitter,
                ret |-> _calculate_backoff_delay(attempt, jitter)]
    /\ UNCHANGED <<now, db, th, wire>>

NextRetry ==
    \/ \E url \in ExecutorUrls, script \in ExecutorScripts : \E jitter \in Jitters(script) :
          steps < MaxCalls /\ MakeRequest(url, script, jitter) /\ UNCHANGED wire
    \/ \E attempt \in 0..MaxAttempt, jitter \in 0..base_delay :
          CalculateBackoffDelay(attempt, jitter)

SpecRetry == Init /\ [][NextRetry]_vars

(***************************************************************************)
(* C11.  A call of the retry executor sends at most max_retries + 1        *)
(* requests; when the limiter lets it through and every answer it gets is  *)
(* a 429, a timeout or a transport error, it sends exactly max_retries + 1 *)
(* and ends with WeatherServiceError, not RateLimitError.                  *)
(***************************************************************************)
C11_AttemptCeiling ==
    [][call'.op = "_make_request_with_retry"
       => /\ Attempts(call') <= max_retries + 1
          /\ (/\ call'.fetched.raised # "RateLimitError"
              /\ \A i \in 1..Attempts(call') : Nth(call'.script, i).status \in Retryable)
             => /\ Attempts(call') = max_retries + 1
                /\ call'.fetched.raised = "WeatherServiceError"]_vars

(***************************************************************************)
(* C13.  After a 429 that is not the answer to the last attempt, the       *)
(* executor sleeps the Retry-After header's number of seconds, capped at   *)
(* max_delay, when the header gives one, and the backoff delay of that     *)
(* attempt when the header is absent, empty or not a number; after a       *)
(* timeout or a transport error it sleeps the backoff delay.  So what a    *)
(* call has slept is the sum of these waits over the attempts that were    *)
(* followed by another.                                                    *)
(***************************************************************************)
RECURSIVE Waited(_, _, _)
Waited(script, jitter, n) ==
    IF n = 0
    THEN 0
    ELSE LET response == Nth(script, n)
             wait == IF response.status = "429" /\ response.retry_after.kind = "seconds"
                     THEN Min(response.retry_after.seconds, max_delay)
                     ELSE Min(base_delay * Pow2(n - 1) + jitter, max_delay)
         IN  Waited(script, jitter, n - 1) + wait

C13_RetryAfterCapped ==
    [][(call'.op = "_make_request_with_retry" /\ Attempts(call') >= 1)
       => call'.fetched.slept = Waited(call'.script, call'.jitter, Attempts(call') - 1)]_vars

\* A call has been told by a 429 to come back later than max_delay allows,
\* has waited max_delay and has tried again.
C13_Witness ==
    /\ call.op = "_make_request_with_retry"
    /\ call.script[1] = TooMany(Header("seconds", 40))
    /\ Attempts(call) = 2
    /\ call.fetched.slept = max_delay
    /\ call.fetched.raised = ""

(***************************************************************************)
(* C14.  The backoff delay never exceeds max_delay, for any attempt        *)
(* number and any jitter; and with the jitter left out it does not         *)
(* decrease from one attempt to the next, being base_delay * 2^attempt     *)
(* for the attempts 0, 1, 2.                                               *)
(***************************************************************************)
C14_BackoffMonotoneAndCapped ==
    [][call'.op = "_calculate_backoff_delay"
       => /\ call'.ret <= max_delay
          /\ call'.ret >= _calculate_backoff_delay(call'.attempt, 0)
          /\ (call'.attempt > 0
              => _calculate_backoff_delay(call'.attempt - 1, 0)
                     <= _calculate_backoff_delay(call'.attempt, 0))
          /\ (call'.attempt \in 0..2
              => _calculate_backoff_delay(call'.attempt, 0)
                     = base_delay * Pow2(call'.attempt))]_vars

\* The delay has been computed for an attempt whose base * 2^attempt is over
\* max_delay, and came out as max_delay.
C14_Witness ==
    /\ call.op = "_calculate_backoff_delay"
    /\ base_delay * Pow2(call.attempt) > max_delay
    /\ call.ret = max_delay

(***************************************************************************)
(* The rate limiter over tables as fetches leave them: any subset of five  *)
(* keys, four of the shared-quota families and one METAR, each entry       *)
(* fetched half a minute, ten minutes, two hours or more than a day ago;   *)
(* then time passes, up to the very edge of each window.                   *)
(***************************************************************************)
LimitClock == 100000

LimitKeys ==
    << <<"openmeteo", 1>>, <<"openmeteo", 2>>, <<"hourly", 1>>,
       <<"historical", 0>>, <<"metar", 1>> >>

LimitAges == {30, 600, 7200, 90000}

LimitPauses == {30, 3000, 79200}

SavedRow(k, age) ==
    LET weather_type == LimitKeys[k][1]
        target_date == LimitKeys[k][2]
        at_station == weather_type = "metar"
    IN  [id |-> k, weather_type |-> weather_type, target_date |-> target_date,
         station |-> IF at_station THEN default_station ELSE "",
         latitude |-> IF at_station THEN None ELSE nws_location[1],
         longitude |-> IF at_station THEN None ELSE nws_location[2],
         data |-> Serialize(Parsed(weather_type, target_date, LimitClock - age)),
         fetched_at |-> LimitClock - age]

LimitStores ==
    { {SavedRow(k, age[k]) : k \in keys} :
          keys \in SUBSET DOMAIN LimitKeys, age \in [DOMAIN LimitKeys -> LimitAges] }

InitLimit ==
    /\ now = LimitClock
    /\ db \in LimitStores
    /\ call = [op |-> "init"]
    /\ th = [t \in Threads |-> Idle]
    /\ steps = 0
    /\ wire = <<>>

CheckRateLimit ==
    /\ steps < MaxCalls
    /\ steps' = steps + 1
    /\ call' = [op |-> "_check_rate_limit", ret |-> _check_rate_limit(db, now)]
    /\ UNCHANGED <<now, db, th, wire>>

NextLimit ==
    \/ CheckRateLimit
    \/ \E d \in LimitPauses : steps < MaxCalls /\ Advance(d) /\ UNCHANGED wire

SpecLimit == InitLimit /\ [][NextLimit]_vars

\* The shared-quota entries fetched within the trailing window of the given
\* length.
InWindow(store, clock, seconds) ==
    {r \in store : /\ r.weather_type \in {"openmeteo", "hourly", "historical"}
                   /\ clock - r.fetched_at <= seconds}

\* The window holds ceiling * margin entries or more.
AtOrOver(store, clock, seconds, ceiling) ==
    100 * Cardinality(InWindow(store, clock, seconds)) >= ceiling * rate_limit_safety_margin

OtherFamilies(store) ==
    {r \in store : r.weather_type \notin {"openmeteo", "hourly", "historical"}}

(***************************************************************************)
(* C15.  _check_rate_limit returns False exactly when the shared-quota     *)
(* entries (openmeteo, hourly, historical) fetched within the trailing     *)
(* minute, hour or day number ceiling * margin or more for that window,    *)
(* and True otherwise; the entries of other families make no difference.   *)
(***************************************************************************)
C15_LimiterThresholds ==
    [][call'.op = "_check_rate_limit"
       => /\ call'.ret = ~(\/ AtOrOver(db, now, 60, rate_limit_per_minute)
                           \/ AtOrOver(db, now, 3600, rate_limit_per_hour)
                           \/ AtOrOver(db, now, SecondsPerDay, rate_limit_per_day))
          /\ call'.ret = _check_rate_limit(db \ OtherFamilies(db), now)]_vars

\* The limiter has allowed a call with every window one entry short of its
\* threshold, an entry on the very edge of the hour, and a METAR entry in
\* the table.
C15_Witness ==
    /\ call.op = "_check_rate_limit"
    /\ call.ret
    /\ 100 * (Cardinality(InWindow(db, now, 60)) + 1) = rate_limit_per_minute * rate_limit_safety_margin
    /\ 100 * (Cardinality(InWindow(db, now, 3600)) + 1) = rate_limit_per_hour * rate_limit_safety_margin
    /\ 100 * (Cardinality(InWindow(db, now, SecondsPerDay)) + 1) = rate_limit_per_day * rate_limit_safety_margin
    /\ \E r \in InWindow(db, now, 3600) : now - r.fetched_at = 3600
    /\ OtherFamilies(db) # {}

(***************************************************************************)
(* C16.  Every fetch-orchestration step of a shared-quota family that got  *)
(* a record from upstream and persisted it raises by one the number of     *)
(* entries the rate limiter counts in the trailing minute, in the trailing *)
(* hour and in the trailing day.                                           *)
(***************************************************************************)
C16_PersistIsIncrement ==
    [][(call'.op \in OpenMeteoOps /\ call'.write = "saved")
       => \A seconds \in {60, 3600, SecondsPerDay} :
              Cardinality(InWindow(db', now', seconds))
                  = Cardinality(InWindow(db, now', seconds)) + 1]_vars

(***************************************************************************)
(* The shared quota: the three Open-Meteo fetch-orchestration steps, for   *)
(* one date or another, against an upstream that answers, has nothing,     *)
(* fails, or asks to come back later, with every request that goes out     *)
(* recorded on the wire, and pauses of a minute or more in between.  No    *)
(* call is retried more than once, so that no call reaches the ceiling of  *)
(* a window by itself.                                                     *)
(***************************************************************************)
QuotaDates == {1, 2}

QuotaScripts ==
    { <<Ok>>, <<Response("200", "empty")>>, <<Response("404", "")>>,
      <<Response("500", "")>>, <<Busy, Ok>>, <<TimedOut, Response("500", "")>> }

QuotaPauses == {60, 3600}

NextQuota ==
    \/ \E target_date \in QuotaDates, script \in QuotaScripts : \E jitter \in Jitters(script) :
          _get_openmeteo_forecast(target_date, script, jitter, TRUE) /\ Record(script, jitter)
    \/ \E target_date \in QuotaDates, script \in QuotaScripts : \E jitter \in Jitters(script) :
          get_hourly_forecast(target_date, script, jitter, TRUE) /\ Record(script, jitter)
    \/ \E target_date \in QuotaDates, script \in QuotaScripts : \E jitter \in Jitters(script) :
          _get_historical_weather(target_date, script, jitter, TRUE) /\ Record(script, jitter)
    \/ \E d \in QuotaPauses : Advance(d) /\ Elapse

SpecQuota == Init /\ [][NextQuota]_vars

\* The requests on the wire in the window of the given length that ends
\* with request number i.
Trailing(i, seconds) ==
    {j \in DOMAIN wire : j <= i /\ wire[i] - wire[j] < seconds}

(***************************************************************************)
(* C17.  However the shared-quota fetches follow one another, retries and  *)
(* failed requests included, the requests sent to Open-Meteo within any    *)
(* minute, any hour and any day number no more than that window's          *)
(* configured ceiling.                                                     *)
(***************************************************************************)
C17_QuotaNeverBreached ==
    \A i \in DOMAIN wire :
        /\ Cardinality(Trailing(i, 60)) <= rate_limit_per_minute
        /\ Cardinality(Trailing(i, 3600)) <= rate_limit_per_hour
        /\ Cardinality(Trailing(i, SecondsPerDay)) <= rate_limit_per_day

(***************************************************************************)
(* Provider records as the composite reads them.  A record that is not     *)
(* there is NoneData, a field that is None is None.  wind is a WindData    *)
(* (its direction left out) and is never None, nor is the visibility of a  *)
(* METAR or a TAF, in statute miles; ceiling is the altitude of the first  *)
(* BKN, OVC or VV layer, None without one; temperatures are in Celsius     *)
(* but for the NWS, which gives Fahrenheit.                                *)
(***************************************************************************)
WindData(speed, gust) ==
    [speed |-> speed, gust |-> gust]

\* round(celsius * 9 / 5 + 32): the fraction is never one half.
Fahrenheit(celsius) ==
    IF celsius = None THEN None ELSE (18 * celsius + 5) \div 10 + 32

(***************************************************************************)
(* calculate_rc_assessment.  The rating starts as good; each check may     *)
(* replace it and appends its reason.                                      *)
(***************************************************************************)
Assessment(rating, reasons) ==
    [rating |-> rating, reasons |-> reasons]

\* rating = to; reasons.append(reason)
Rate(a, to, reason) ==
    Assessment(to, Append(a.reasons, reason))

\* The same with the test of the rating left out.
RaiseUnguarded(a, from, to, reason) ==
    Assessment(to, Append(a.reasons, reason))

\* if rating in from: rating = to; and, either way, reasons.append(reason)
Raise(a, from, to, reason) ==
    Assessment(IF a.rating \in from THEN to ELSE a.rating, Append(a.reasons, reason))

calculate_rc_assessment(wind_speed, wind_gust, visibility, ceiling, precipitation_probability) ==
    LET start == Assessment("good", <<>>)
        after_wind ==
            IF wind_speed >= 20 THEN Rate(start, "no-fly", "Wind too strong")
            ELSE IF wind_speed >= 15 THEN Rate(start, "poor", "High wind")
            ELSE IF wind_speed >= 10 THEN Raise(start, {"good"}, "marginal", "Moderate wind")
            ELSE start
        after_gust ==
            IF wind_gust # None /\ wind_gust # 0
            THEN IF wind_gust >= 25 THEN Rate(after_wind, "no-fly", "Dangerous gusts")
                 ELSE IF wind_gust >= 20
                      THEN Raise(after_wind, {"good", "marginal"}, "poor", "Strong gusts")
                      ELSE IF wind_gust - wind_speed >= 10
                           THEN Raise(after_wind, {"good"}, "marginal", "Gusty")
                           ELSE after_wind
            ELSE after_wind
        after_visibility ==
            IF visibility # None
            THEN IF visibility < 1 THEN Rate(after_gust, "no-fly", "Very low visibility")
                 ELSE IF visibility < 3
                      THEN Raise(after_gust, {"good", "marginal"}, "poor", "Reduced visibility")
                      ELSE after_gust
            ELSE after_gust
        after_ceiling ==
            IF ceiling # None
            THEN IF ceiling < 400
                 THEN Raise(after_visibility, {"good", "marginal"}, "poor", "Very low ceiling")
                 ELSE IF ceiling < 1000
                      THEN Raise(after_visibility, {"good"}, "marginal", "Low ceiling")
                      ELSE after_visibility
            ELSE after_visibility
    IN  IF precipitation_probability # None
        THEN IF precipitation_probability >= 25
             THEN Raise(after_ceiling, {"good", "marginal"}, "poor", "High rain chance")
             ELSE IF precipitation_probability >= 10
                  THEN Raise(after_ceiling, {"good"}, "marginal", "Rain possible")
                  ELSE after_ceiling
        ELSE after_ceiling

(***************************************************************************)
(* CompositeWeatherData: the records of one date, one per provider or      *)
(* NoneData, and the properties that merge them.  A source that is None is *)
(* the empty string.                                                       *)
(***************************************************************************)
wind(c) ==
    IF c.metar # NoneData THEN c.metar.wind
    ELSE IF c.taf # NoneData THEN c.taf.wind
    ELSE IF c.nws # NoneData THEN c.nws.wind
    ELSE IF c.openmeteo # NoneData THEN c.openmeteo.wind
    ELSE IF c.historical # NoneData THEN c.historical.wind
    ELSE NoneData

wind_sourceNwsFirst(c) ==
    IF c.nws # NoneData THEN "nws"
    ELSE IF c.metar # NoneData THEN "metar"
    ELSE IF c.taf # NoneData THEN "taf"
    ELSE IF c.openmeteo # NoneData THEN "openmeteo"
    ELSE IF c.historical # NoneData THEN "historical"
    ELSE ""

wind_source(c) ==
    IF c.metar # NoneData THEN "metar"
    ELSE IF c.taf # NoneData THEN "taf"
    ELSE IF c.nws # NoneData THEN "nws"
    ELSE IF c.openmeteo # NoneData THEN "openmeteo"
    ELSE IF c.historical # NoneData THEN "historical"
    ELSE ""

\* The value each branch of temperature_f and temperature_source tests.
TemperatureOf(c, source) ==
    IF c[source] = NoneData THEN None
    ELSE IF source = "nws" THEN c.nws.temperature_high
    ELSE IF source = "metar" THEN Fahrenheit(c.metar.temperature)
    ELSE Fahrenheit(c[source].temperature_high)

temperature_f(c) ==
    IF TemperatureOf(c, "metar") # None THEN TemperatureOf(c, "metar")
    ELSE IF TemperatureOf(c, "nws") # None THEN TemperatureOf(c, "nws")
    ELSE IF TemperatureOf(c, "openmeteo") # None THEN TemperatureOf(c, "openmeteo")
    ELSE IF TemperatureOf(c, "historical") # None THEN TemperatureOf(c, "historical")
    ELSE None

temperature_source(c) ==
    IF TemperatureOf(c, "metar") # None THEN "metar"
    ELSE IF TemperatureOf(c, "nws") # None THEN "nws"
    ELSE IF TemperatureOf(c, "openmeteo") # None THEN "openmeteo"
    ELSE IF TemperatureOf(c, "historical") # None THEN "historical"
    ELSE ""

ceiling(c) ==
    IF c.metar # NoneData THEN c.metar.ceiling
    ELSE IF c.taf # NoneData THEN c.taf.ceiling
    ELSE None

ceiling_source(c) ==
    IF c.metar # NoneData /\ c.metar.ceiling # None THEN "metar"
    ELSE IF c.taf # NoneData /\ c.taf.ceiling # None THEN "taf"
    ELSE ""

visibility(c) ==
    IF c.metar # NoneData THEN c.metar.visibility
    ELSE IF c.taf # NoneData THEN c.taf.visibility
    ELSE None

visibility_source(c) ==
    IF c.metar # NoneData THEN "metar"
    ELSE IF c.taf # NoneData THEN "taf"
    ELSE ""

precipitation_probability(c) ==
    IF c.nws # NoneData /\ c.nws.precipitation_probability # None
    THEN c.nws.precipitation_probability
    ELSE IF c.openmeteo # NoneData /\ c.openmeteo.precipitation_probability # None
         THEN c.openmeteo.precipitation_probability
         ELSE None

precip_source(c) ==
    IF c.nws # NoneData /\ c.nws.precipitation_probability # None THEN "nws"
    ELSE IF c.openmeteo # NoneData /\ c.openmeteo.precipitation_probability # None
         THEN "openmeteo"
         ELSE ""

rc_flying_assessment(c) ==
    IF wind(c) = NoneData
    THEN Assessment("good", <<"No wind data available">>)
    ELSE calculate_rc_assessment(wind(c).speed, wind(c).gust, visibility(c), ceiling(c),
                                 precipitation_probability(c))

(***************************************************************************)
(* The composites of one date: each provider's record there or not, with   *)
(* a wind of its own and its optional fields there or not; and the         *)
(* arguments of calculate_rc_assessment on both sides of every threshold.  *)
(***************************************************************************)
Metars ==
    { [wind |-> w, temperature |-> t, ceiling |-> c, visibility |-> v] :
          w \in {WindData(12, None), WindData(22, 30)}, t \in {None, 21},
          c \in {None, 500}, v \in {2, 10} }

Tafs ==
    { [wind |-> WindData(8, None), ceiling |-> c, visibility |-> v] :
          c \in {None, 800}, v \in {0, 10} }

NwsForecasts ==
    { [wind |-> WindData(6, 16), temperature_high |-> t, precipitation_probability |-> p] :
          t \in {None, 70}, p \in {None, 30} }

OpenMeteoForecasts ==
    { [wind |-> WindData(5, None), temperature_high |-> t, precipitation_probability |-> p] :
          t \in {None, 25}, p \in {None, 80} }

Historicals ==
    { [wind |-> WindData(3, None), temperature_high |-> 10] }

Composites ==
    [metar : Metars \cup {NoneData}, taf : Tafs \cup {NoneData},
     nws : NwsForecasts \cup {NoneData}, openmeteo : OpenMeteoForecasts \cup {NoneData},
     historical : Historicals \cup {NoneData}]

Arguments ==
    [wind_speed : {0, 9, 10, 14, 15, 19, 20, 22},
     wind_gust : {None, 0, 19, 20, 24, 25, 30},
     visibility : {None, 0, 1, 2, 3, 10},
     ceiling : {None, 399, 400, 999, 1000},
     precipitation_probability : {None, 9, 10, 24, 25}]

(***************************************************************************)
(* The daily figures of Open-Meteo for one date, as the poller receives    *)
(* them, any of which may be null; the record parsed from them, what is    *)
(* persisted of it, and the composite a view gets back from the store.     *)
(***************************************************************************)
\* round(kmh * 0.54) for a speed whose product is not halfway.
Knots(kmh) ==
    (54 * kmh + 50) \div 100

_parse_openmeteo_response(daily, target_date, clock) ==
    LET wind_speed_kmh == IF daily.wind_speed_10m_max = None THEN 0
                          ELSE daily.wind_speed_10m_max
        wind_gust_kmh == daily.wind_gusts_10m_max
    IN  [payload |-> [weather_type |-> "openmeteo", target_date |-> target_date,
                      observed_at |-> clock,
                      wind |-> WindData(Knots(wind_speed_kmh),
                                        IF wind_gust_kmh # None /\ wind_gust_kmh # 0
                                        THEN Knots(wind_gust_kmh) ELSE None),
                      temperature_high |-> daily.temperature_2m_max,
                      precipitation_probability |-> daily.precipitation_probability_max],
         from_cache |-> FALSE, cached_at |-> clock]

\* The attributes of the provider records of a composite a reader returned.
Attributes(view) ==
    [k \in Sources |-> IF view[k] = NoneData THEN NoneData ELSE view[k].payload]

ScenarioDaysOut == 10

Dailies ==
    [wind_speed_10m_max : {None, 10}, wind_gusts_10m_max : {None},
     temperature_2m_max : {25}, precipitation_probability_max : {80, 5}]

InitComposite ==
    /\ now = 0
    /\ db = {}
    /\ call \in {[op |-> "CompositeWeatherData", composite |-> c] : c \in Composites}
                  \cup {[op |-> "arguments", arguments |-> a] : a \in Arguments}
                  \cup {[op |-> "daily", daily |-> d, target_date |-> ScenarioDaysOut] :
                            d \in Dailies}
    /\ th = [t \in Threads |-> Idle]
    /\ steps = 0
    /\ wire = <<>>

\* A view reads the properties of the composite it was handed.
ReadComposite ==
    LET c == call.composite
    IN  /\ call.op = "CompositeWeatherData"
        /\ call' = [op |-> "properties", composite |-> c,
                    wind |-> wind(c), wind_source |-> wind_source(c),
                    temperature_f |-> temperature_f(c),
                    temperature_source |-> temperature_source(c),
                    ceiling |-> ceiling(c), ceiling_source |-> ceiling_source(c),
                    visibility |-> visibility(c), visibility_source |-> visibility_source(c),
                    precipitation_probability |-> precipitation_probability(c),
                    precip_source |-> precip_source(c),
                    rc_flying_assessment |-> rc_flying_assessment(c)]
        /\ steps' = steps + 1
        /\ UNCHANGED <<now, db, th, wire>>

CalculateRcAssessment ==
    LET a == call.arguments
    IN  /\ call.op = "arguments"
        /\ call' = [op |-> "calculate_rc_assessment", arguments |-> a,
                    ret |-> calculate_rc_assessment(a.wind_speed, a.wind_gust, a.visibility,
                                                    a.ceiling, a.precipitation_probability)]
        /\ steps' = steps + 1
        /\ UNCHANGED <<now, db, th, wire>>

\* The poller persists the record parsed from the daily figures.
PersistDaily ==
    LET data == _parse_openmeteo_response(call.daily, call.target_date, now)
    IN  /\ call.op = "daily"
        /\ db' = _save_to_db(db, now, "openmeteo", call.target_date, Serialize(data), "",
                             nws_location[1], nws_location[2], TRUE).store
        /\ call' = [op |-> "persisted", daily |-> call.daily, target_date |-> call.target_date]
        /\ steps' = steps + 1
        /\ UNCHANGED <<now, th, wire>>

\* A view reads the date back from the store and reads the properties of
\* the composite it gets.
ViewPersisted ==
    LET read == get_weather_from_db(db, now, call.target_date, "")
        c == Attributes(read.ret)
    IN  /\ call.op = "persisted"
        /\ read.ret # NoneData
        /\ call' = [op |-> "composite_view", daily |-> call.daily,
                    target_date |-> call.target_date, composite |-> c,
                    wind |-> wind(c), wind_source |-> wind_source(c),
                    temperature_f |-> temperature_f(c),
                    temperature_source |-> temperature_source(c),
                    precipitation_probability |-> precipitation_probability(c),
                    precip_source |-> precip_source(c),
                    rc_flying_assessment |-> rc_flying_assessment(c)]
        /\ steps' = steps + 1
        /\ UNCHANGED <<now, db, th, wire>>

NextComposite ==
    \/ ReadComposite
    \/ CalculateRcAssessment
    \/ PersistDaily
    \/ ViewPersisted

SpecComposite == InitComposite /\ [][NextComposite]_vars

\* The providers in the fixed order of each logical field.
Priority ==
    [wind |-> <<"metar", "taf", "nws", "openmeteo", "historical">>,
     temperature |-> <<"metar", "nws", "openmeteo", "historical">>,
     ceiling |-> <<"metar", "taf">>,
     visibility |-> <<"metar", "taf">>,
     precipitation |-> <<"nws", "openmeteo">>]

\* What a provider's record holds for a logical field; NoneData or None
\* when the record is not there or holds nothing for it.
ValueOf(c, source, field) ==
    IF field = "wind" THEN (IF c[source] = NoneData THEN NoneData ELSE c[source].wind)
    ELSE IF c[source] = NoneData THEN None
    ELSE IF field = "temperature" THEN TemperatureOf(c, source)
    ELSE IF field = "ceiling" THEN c[source].ceiling
    ELSE IF field = "visibility" THEN c[source].visibility
    ELSE c[source].precipitation_probability

Absent(field) ==
    IF field = "wind" THEN NoneData ELSE None

\* The places in the field's priority list of the providers that hold a
\* value for it.
Contributors(c, field) ==
    {i \in DOMAIN Priority[field] : ValueOf(c, Priority[field][i], field) # Absent(field)}

First_of(places) ==
    CHOOSE i \in places : \A j \in places : i <= j

\* The value and the source the properties gave for a logical field.
Merged(p, field) ==
    IF field = "wind" THEN <<p.wind, p.wind_source>>
    ELSE IF field = "temperature" THEN <<p.temperature_f, p.temperature_source>>
    ELSE IF field = "ceiling" THEN <<p.ceiling, p.ceiling_source>>
    ELSE IF field = "visibility" THEN <<p.visibility, p.visibility_source>>
    ELSE <<p.precipitation_probability, p.precip_source>>

(***************************************************************************)
(* C18.  In every composite, for every logical field that two or more      *)
(* providers hold a value for, the composite's value and its recorded      *)
(* source are those of the provider that comes first in the field's fixed  *)
(* order among them.                                                       *)
(***************************************************************************)
C18_HighestPriorityWins ==
    [][call'.op = "properties"
       => \A field \in DOMAIN Priority :
              LET places == Contributors(call'.composite, field)
                  winner == Priority[field][First_of(places)]
              IN  Cardinality(places) >= 2
                  => Merged(call', field)
                         = <<ValueOf(call'.composite, winner, field), winner>>]_vars

\* A composite of a current observation with wind 12 kt and an extended
\* forecast with wind 5 kt has given wind 12 kt from the current observation.
C18_Witness ==
    /\ call.op = "properties"
    /\ call.composite.metar # NoneData
    /\ call.composite.metar.wind.speed = 12
    /\ call.composite.openmeteo # NoneData
    /\ call.composite.openmeteo.wind.speed = 5
    /\ call.wind.speed = 12
    /\ call.wind_source = "metar"

(***************************************************************************)
(* C19.  In every composite, each logical field's value is that of the     *)
(* first provider in the field's fixed order that holds a value for it,    *)
(* the recorded source is that provider, and the value is absent exactly   *)
(* when the source is.                                                     *)
(***************************************************************************)
C19_FirstNonAbsentWins ==
    [][call'.op = "properties"
       => \A field \in DOMAIN Priority :
              LET places == Contributors(call'.composite, field)
              IN  /\ Merged(call', field)
                         = IF places = {}
                           THEN <<Absent(field), "">>
                           ELSE <<ValueOf(call'.composite, Priority[field][First_of(places)], field),
                                  Priority[field][First_of(places)]>>
                  /\ (Merged(call', field)[1] = Absent(field)) <=> (Merged(call', field)[2] = "")]_vars

\* How severe a rating is.
Severity(rating) ==
    CASE rating = "good" -> 0
      [] rating = "marginal" -> 1
      [] rating = "poor" -> 2
      [] rating = "no-fly" -> 3

\* The thresholds that the arguments trigger, each as the bucket it puts
\* the day in and the reason it gives.
Triggered(a) ==
    LET gusty == a.wind_gust # None /\ a.wind_gust # 0
    IN  {t \in {<<a.wind_speed >= 20, "no-fly", "Wind too strong">>,
                <<a.wind_speed >= 15 /\ a.wind_speed < 20, "poor", "High wind">>,
                <<a.wind_speed >= 10 /\ a.wind_speed < 15, "marginal", "Moderate wind">>,
                <<gusty /\ a.wind_gust >= 25, "no-fly", "Dangerous gusts">>,
                <<gusty /\ a.wind_gust >= 20 /\ a.wind_gust < 25, "poor", "Strong gusts">>,
                <<gusty /\ a.wind_gust < 20 /\ a.wind_gust - a.wind_speed >= 10,
                  "marginal", "Gusty">>,
                <<a.visibility # None /\ a.visibility < 1, "no-fly", "Very low visibility">>,
                <<a.visibility # None /\ a.visibility >= 1 /\ a.visibility < 3,
                  "poor", "Reduced visibility">>,
                <<a.ceiling # None /\ a.ceiling < 400, "poor", "Very low ceiling">>,
                <<a.ceiling # None /\ a.ceiling >= 400 /\ a.ceiling < 1000,
                  "marginal", "Low ceiling">>,
                <<a.precipitation_probability # None /\ a.precipitation_probability >= 25,
                  "poor", "High rain chance">>,
                <<a.precipitation_probability # None /\ a.precipitation_probability >= 10
                      /\ a.precipitation_probability < 25,
                  "marginal", "Rain possible">>} : t[1]}

\* The assessment is the worst bucket among the thresholds triggered, good
\* when there is none, and gives the reason of each of them.
WorstBucket(a, assessment) ==
    /\ \A t \in Triggered(a) : Severity(assessment.rating) >= Severity(t[2])
    /\ \/ assessment.rating \in {t[2] : t \in Triggered(a)}
       \/ assessment.rating = "good" /\ Triggered(a) = {}
    /\ {assessment.reasons[i] : i \in DOMAIN assessment.reasons} = {t[3] : t \in Triggered(a)}

\* The arguments that rc_flying_assessment passes on.
MergedArguments(p) ==
    [wind_speed |-> p.wind.speed, wind_gust |-> p.wind.gust, visibility |-> p.visibility,
     ceiling |-> p.ceiling, precipitation_probability |-> p.precipitation_probability]

(***************************************************************************)
(* C20.  The safety rating is a function of the merged fields alone, and   *)
(* it is the most severe bucket among the thresholds those fields trigger: *)
(* no later check lowers the rating an earlier one gave.  This holds of    *)
(* calculate_rc_assessment on its arguments and of the composite's         *)
(* assessment on its merged fields.                                        *)
(***************************************************************************)
C20_WorstBucketWins ==
    [][/\ call'.op = "calculate_rc_assessment"
          => WorstBucket(call'.arguments, call'.ret)
       /\ (call'.op = "properties" /\ call'.wind # NoneData)
          => /\ WorstBucket(MergedArguments(call'), call'.rc_flying_assessment)
             /\ \A c \in Composites :
                    (/\ wind(c) = call'.wind
                     /\ visibility(c) = call'.visibility
                     /\ ceiling(c) = call'.ceiling
                     /\ precipitation_probability(c) = call'.precipitation_probability)
                    => rc_flying_assessment(c) = call'.rc_flying_assessment]_vars

\* A composite whose current observation has wind 22 kt gusting 30 kt has
\* been rated no-fly with the reason of dangerous gusts.
C20_Witness ==
    /\ call.op = "properties"
    /\ call.composite.metar # NoneData
    /\ call.composite.metar.wind = WindData(22, 30)
    /\ call.rc_flying_assessment.rating = "no-fly"
    /\ \E i \in DOMAIN call.rc_flying_assessment.reasons :
           call.rc_flying_assessment.reasons[i] = "Dangerous gusts"

\* The six factors in the order of the checks, each thresholded on its own:
\* whether its threshold is triggered, and the reason it then gives.
Factors(a) ==
    LET gusty == a.wind_gust # None /\ a.wind_gust # 0
    IN  << <<a.wind_speed >= 10,
             IF a.wind_speed >= 20 THEN "Wind too strong"
             ELSE IF a.wind_speed >= 15 THEN "High wind" ELSE "Moderate wind">>,
           <<gusty /\ a.wind_gust >= 20,
             IF a.wind_gust >= 25 THEN "Dangerous gusts" ELSE "Strong gusts">>,
           <<gusty /\ a.wind_gust - a.wind_speed >= 10, "Gusty">>,
           <<a.visibility # None /\ a.visibility < 3,
             IF a.visibility < 1 THEN "Very low visibility" ELSE "Reduced visibility">>,
           <<a.ceiling # None /\ a.ceiling < 1000,
             IF a.ceiling < 400 THEN "Very low ceiling" ELSE "Low ceiling">>,
           <<a.precipitation_probability # None /\ a.precipitation_probability >= 10,
             IF a.precipitation_probability >= 25 THEN "High rain chance" ELSE "Rain possible">> >>

RECURSIVE ReasonsFrom(_, _)
ReasonsFrom(factors, i) ==
    IF i > Len(factors) THEN <<>>
    ELSE (IF factors[i][1] THEN <<factors[i][2]>> ELSE <<>>) \o ReasonsFrom(factors, i + 1)

(***************************************************************************)
(* C21.  calculate_rc_assessment thresholds each of the six factors (wind  *)
(* speed, gust, gust spread, visibility, ceiling, precipitation            *)
(* probability) on its own, and its list of reasons holds the reason of    *)
(* every factor whose threshold is triggered, in the fixed order of the    *)
(* factors.                                                                *)
(***************************************************************************)
C21_EveryTriggeredFactorHasReason ==
    [][call'.op = "calculate_rc_assessment"
       => call'.ret.reasons = ReasonsFrom(Factors(call'.arguments), 1)]_vars

(***************************************************************************)
(* C22.  When the only entry persisted for a date 10 days out is an        *)
(* extended-range entry with precipitation probability 80 and no wind      *)
(* figure, the composite read back is rated poor for the precipitation     *)
(* alone, and its wind is absent rather than zero: no wind value, no wind  *)
(* source, no reason about wind.                                           *)
(***************************************************************************)
C22_WindAbsentNotZero ==
    [][(/\ call'.op = "composite_view"
        /\ call'.daily.wind_speed_10m_max = None
        /\ call'.daily.precipitation_probability_max = 80)
       => /\ call'.rc_flying_assessment = Assessment("poor", <<"High rain chance">>)
          /\ call'.precip_source = "openmeteo"
          /\ call'.wind = NoneData
          /\ call'.wind_source = ""]_vars

(***************************************************************************)
(* get_all_weather_for_date.  A past date is fetched from the archive in   *)
(* the calling thread; a date beyond 15 days is answered at once; for any  *)
(* other date one task per provider is submitted to a pool of 4 threads,   *)
(* which is never fewer than the tasks, so the tasks run in any order.     *)
(* The tasks work on the entries of different weather types, and only the  *)
(* Open-Meteo task writes an entry the limiter counts, so a task is one    *)
(* step here (the interleaving of two saves is SpecConc).  The call in     *)
(* progress is held in call: the tasks still pending, the providers        *)
(* attempted, what each provider's _get_* returned and what became of it   *)
(* in results.                                                             *)
(***************************************************************************)
ToFetchAsReader(days_out) ==
    Applicable(days_out)

\* The providers the call fetches for a date days_out days from today.
ToFetch(days_out) ==
    IF days_out < 0 THEN {"historical"}
    ELSE IF days_out > 15 THEN {}
    ELSE (IF days_out = 0 THEN {"metar"} ELSE {})
         \cup (IF days_out <= 1 THEN {"taf"} ELSE {})
         \cup (IF days_out <= 7 THEN {"nws"} ELSE {})
         \cup (IF days_out <= 15 THEN {"openmeteo"} ELSE {})

\* The _get_* of a provider as a function of the store and the clock;
\* case is the token, the upstream's script, the jitter and whether the
\* store accepts a write.
Provider(source, store, clock, target_date, station_in, case) ==
    LET station == Upper(IF station_in # "" THEN station_in ELSE default_station)
        local_today == LocalToday(clock)
        lat == nws_location[1]
        lon == nws_location[2]
    IN  CASE source = "metar" ->
                 GetWithCache(store, clock, "metar", local_today, station, None, None,
                              metar_cache_ttl,
                              _fetch_metar_from_api(case.api_token, case.script, local_today, clock),
                              case.db_up)
          [] source = "taf" ->
                 GetWithCache(store, clock, "taf", target_date, station, None, None,
                              taf_cache_ttl,
                              _fetch_taf_from_api(case.api_token, case.script, target_date, clock),
                              case.db_up)
          [] source = "nws" ->
                 GetWithCache(store, clock, "nws", target_date, "", lat, lon, nws_cache_ttl,
                              _fetch_nws_forecast(case.script, target_date, clock), case.db_up)
          [] source = "openmeteo" ->
                 GetWithCache(store, clock, "openmeteo", target_date, "", lat, lon,
                              openmeteo_cache_ttl,
                              _fetch_openmeteo_forecast(store, clock, case.script, case.jitter,
                                                        target_date),
                              case.db_up)
          [] source = "historical" ->
                 GetWithCache(store, clock, "historical", target_date, "", lat, lon,
                              historical_cache_ttl,
                              _fetch_historical_weather(store, clock, case.script, case.jitter,
                                                        target_date),
                              case.db_up)

\* CompositeWeatherData(target_date=...) with what the caller passes; the
\* dataclass defaults are no record and source METAR.
NoRecords ==
    [k \in Sources |-> NoneData]

Composite(target_date, results, cached_at, source) ==
    [target_date |-> target_date, metar |-> results["metar"], taf |-> results["taf"],
     nws |-> results["nws"], openmeteo |-> results["openmeteo"],
     historical |-> results["historical"], cached_at |-> cached_at, source |-> source]

\* CompositeWeatherData.source_label: the labels that are joined, or
\* Unavailable when there is none.
source_label(c) ==
    LET labels == (IF c.metar # NoneData THEN <<"METAR">> ELSE <<>>)
                  \o (IF c.taf # NoneData THEN <<"TAF">> ELSE <<>>)
                  \o (IF c.nws # NoneData THEN <<"NWS">> ELSE <<>>)
                  \o (IF c.openmeteo # NoneData THEN <<"Extended">> ELSE <<>>)
                  \o (IF c.historical # NoneData THEN <<"Historical">> ELSE <<>>)
    IN  IF labels # <<>> THEN labels ELSE <<"Unavailable">>

\* A result that is always dropped.
SettledAsNone(got) ==
    NoneData

\* fetch_<source>_safe and future.result(): WeatherServiceError is logged
\* in the task, any other exception where the future is read; either way
\* the result is None.
Settled(got) ==
    IF got.raised = "" THEN got.ret ELSE NoneData

\* What _get_* returned to its caller, None when it raised.
Returned(got) ==
    IF got.raised = "" THEN got.ret ELSE NoneData

GetAll(target_date, days_out, attempted, yielded, ret, raised) ==
    [op |-> "get_all_weather_for_date", target_date |-> target_date, days_out |-> days_out,
     attempted |-> attempted, yielded |-> yielded, ret |-> ret, raised |-> raised]

\* The branch of a past date.
GetAllPast(case) ==
    LET target_date == call.target_date
        days_out == target_date - LocalToday(now)
        got == Provider("historical", db, now, target_date, "", case)
    IN  /\ call.op = "request"
        /\ days_out < 0
        /\ db' = got.store
        /\ now' = got.clock
        /\ call' = GetAll(target_date, days_out, {"historical"},
                          [NoRecords EXCEPT !["historical"] = Returned(got)],
                          IF got.raised = ""
                          THEN Composite(target_date, [NoRecords EXCEPT !["historical"] = got.ret],
                                         got.clock, "historical")
                          ELSE IF IsWeatherServiceError(got.raised)
                               THEN Composite(target_date, NoRecords, got.clock, "metar")
                               ELSE NoneData,
                          IF IsWeatherServiceError(got.raised) THEN "" ELSE got.raised)
        /\ steps' = steps + 1
        /\ UNCHANGED <<th, wire>>

\* The branch of a date beyond 15 days.
GetAllBeyond ==
    LET target_date == call.target_date
        days_out == target_date - LocalToday(now)
    IN  /\ call.op = "request"
        /\ days_out > 15
        /\ call' = GetAll(target_date, days_out, {}, NoRecords,
                          Composite(target_date, NoRecords, now, "metar"), "")
        /\ steps' = steps + 1
        /\ UNCHANGED <<now, db, th, wire>>

\* The tasks are submitted.
Submit ==
    LET target_date == call.target_date
        days_out == target_date - LocalToday(now)
    IN  /\ call.op = "request"
        /\ days_out >= 0
        /\ days_out <= 15
        /\ call' = [op |-> "pool", target_date |-> target_date, days_out |-> days_out,
                    pending |-> ToFetch(days_out), attempted |-> {},
                    yielded |-> NoRecords, results |-> NoRecords]
        /\ steps' = steps + 1
        /\ UNCHANGED <<now, db, th, wire>>

\* One task runs and its future is read.
RunTask(source, case) ==
    LET got == Provider(source, db, now, call.target_date, "", case)
    IN  /\ call.op = "pool"
        /\ source \in call.pending
        /\ db' = got.store
        /\ now' = got.clock
        /\ call' = [call EXCEPT !.pending = @ \ {source},
                                !.attempted = @ \cup {source},
                                !.yielded[source] = Returned(got),
                                !.results[source] = Settled(got)]
        /\ steps' = steps + 1
        /\ UNCHANGED <<th, wire>>

\* Every future was read: the composite is built.
Assemble ==
    /\ call.op = "pool"
    /\ call.pending = {}
    /\ call' = GetAll(call.target_date, call.days_out, call.attempted, call.yielded,
                      Composite(call.target_date, call.results, now,
                                IF call.results["metar"] # NoneData THEN "metar"
                                ELSE IF call.results["taf"] # NoneData THEN "taf"
                                ELSE IF call.results["nws"] # NoneData THEN "nws"
                                ELSE IF call.results["openmeteo"] # NoneData THEN "openmeteo"
                                ELSE "unavailable"),
                      "")
    /\ steps' = steps + 1
    /\ UNCHANGED <<now, db, th, wire>>

(***************************************************************************)
(* The calls of one request: today is day 3; the date asked for is on      *)
(* either side of every boundary of days_out; the store is empty, holds an *)
(* entry of every weather type too old for every TTL, or holds fresh       *)
(* entries of the TAF and of Open-Meteo; each upstream answers with a      *)
(* record, with none, with an error status or with a body that is not      *)
(* JSON.                                                                   *)
(***************************************************************************)
PoolClock == 259200

PoolDates == {2, 3, 4, 5, 10, 11, 18, 19}

StoredRow(id, weather_type, target_date, stamp) ==
    LET at_station == weather_type \in {"metar", "taf"}
    IN  [id |-> id, weather_type |-> weather_type, target_date |-> target_date,
         station |-> IF at_station THEN default_station ELSE "",
         latitude |-> IF at_station THEN None ELSE nws_location[1],
         longitude |-> IF at_station THEN None ELSE nws_location[2],
         data |-> Serialize(Parsed(weather_type, target_date, stamp)),
         fetched_at |-> stamp]

PoolTypes == <<"metar", "taf", "nws", "openmeteo", "historical">>

PoolStores(target_date) ==
    { {},
      {StoredRow(k, PoolTypes[k], target_date, PoolClock - 90000) : k \in DOMAIN PoolTypes},
      {StoredRow(k, PoolTypes[k], target_date, PoolClock - 60) : k \in {2, 4}} }

PoolCase(api_token, script) ==
    [api_token |-> api_token, script |-> script, jitter |-> 0, db_up |-> TRUE]

PoolCases(source) ==
    IF source \in {"metar", "taf"}
    THEN {PoolCase("token", <<Ok>>), PoolCase("token", <<Response("404", "")>>),
          PoolCase("token", <<Response("200", "not_json")>>), PoolCase("", <<Ok>>)}
    ELSE IF source = "nws"
         THEN {PoolCase("", <<Ok>>), PoolCase("", <<Response("500", "")>>),
               PoolCase("", <<Ok, Response("200", "empty")>>),
               PoolCase("", <<Ok, Response("200", "not_json")>>)}
         ELSE {PoolCase("", <<Ok>>), PoolCase("", <<Response("200", "empty")>>),
               PoolCase("", <<Response("500", "")>>),
               PoolCase("", <<Response("200", "not_json")>>)}

InitAll ==
    /\ now = PoolClock
    /\ \E target_date \in PoolDates :
           /\ db \in PoolStores(target_date)
           /\ call = [op |-> "request", target_date |-> target_date]
    /\ th = [t \in Threads |-> Idle]
    /\ steps = 0
    /\ wire = <<>>

NextAll ==
    \/ \E case \in PoolCases("historical") : GetAllPast(case)
    \/ GetAllBeyond
    \/ Submit
    \/ \E source \in Sources : \E case \in PoolCases(source) : RunTask(source, case)
    \/ Assemble

SpecAll == InitAll /\ [][NextAll]_vars

(***************************************************************************)
(* C23.  When no provider contributes for a date, because every fetch      *)
(* attempted failed or returned nothing or because none is attempted,      *)
(* get_all_weather_for_date does not raise and returns a composite whose   *)
(* source label says Unavailable.                                          *)
(***************************************************************************)
C23_NoDataIsMarkedNotRaised ==
    [][(/\ call'.op = "get_all_weather_for_date"
        /\ \A source \in Sources : call'.yielded[source] = NoneData)
       => /\ call'.raised = ""
          /\ call'.ret # NoneData
          /\ source_label(call'.ret) = <<"Unavailable">>]_vars

\* The providers the call is to attempt for a date.
Attempted(days_out) ==
    IF days_out < 0 THEN {"historical"}
    ELSE IF days_out = 0 THEN {"metar", "taf", "nws", "openmeteo"}
    ELSE IF days_out = 1 THEN {"taf", "nws", "openmeteo"}
    ELSE IF days_out <= 7 THEN {"nws", "openmeteo"}
    ELSE IF days_out <= 15 THEN {"openmeteo"}
    ELSE {}

(***************************************************************************)
(* C24.  get_all_weather_for_date attempts exactly the providers of the    *)
(* date's days_out: the archive alone for a past date; METAR, TAF, NWS and *)
(* Open-Meteo for today; TAF, NWS and Open-Meteo for tomorrow; NWS and     *)
(* Open-Meteo for days 2 to 7; Open-Meteo alone for days 8 to 15; none     *)
(* beyond.                                                                 *)
(***************************************************************************)
C24_AttemptsApplicableFamilies ==
    [][call'.op = "get_all_weather_for_date"
       => call'.attempted = Attempted(call'.days_out)]_vars

\* A call for today has attempted all four providers.
C24_Witness ==
    /\ call.op = "get_all_weather_for_date"
    /\ call.days_out = 0
    /\ call.attempted = {"metar", "taf", "nws", "openmeteo"}

(***************************************************************************)
(* C25.  A call whose fetches run in the pool never raises, whichever of   *)
(* them fail, and the composite it returns holds exactly the records of    *)
(* the providers attempted whose fetch returned one.                       *)
(***************************************************************************)
C25_PartialFailureStillAssembles ==
    [][(call'.op = "get_all_weather_for_date" /\ call'.days_out \in 0..15)
       => /\ call'.raised = ""
          /\ call'.ret # NoneData
          /\ \A source \in Sources :
                 call'.ret[source] = IF source \in call'.attempted
                                     THEN call'.yielded[source] ELSE NoneData]_vars

\* A call for today has returned a composite with the TAF and without the
\* METAR, the NWS and Open-Meteo, whose fetches failed or returned nothing.
C25_Witness ==
    /\ call.op = "get_all_weather_for_date"
    /\ call.days_out = 0
    /\ call.raised = ""
    /\ call.ret.taf # NoneData
    /\ call.ret.metar = NoneData
    /\ call.ret.nws = NoneData
    /\ call.ret.openmeteo = NoneData

(***************************************************************************)
(* The background poller (weather_poller.py).  Its thread keeps, in th,    *)
(* its position in run, last_poll and _rate_limited_until; time.time() and *)
(* timezone.now() are both the clock now.  The rest of its record is       *)
(* history: last_success, when a family's last poll pass without a failure *)
(* began, or when the family was found fresh on startup; last_sweep, when  *)
(* that pass was over; clean, whether every pass so far went without a     *)
(* failure and without a cool-down; was_limited, whether the tick before   *)
(* found the cool-down on.  A pass takes the time of its sleeps and of the *)
(* requests that time out.                                                 *)
(*                                                                         *)
(* fetch_openmeteo_batch and fetch_hourly_batch are called by the poller   *)
(* but are not in the source tree: a batch is one call that returns the    *)
(* records of its dates or raises, RateLimitError when the limiter refuses *)
(* or the upstream keeps refusing, WeatherServiceError otherwise.          *)
(***************************************************************************)
METAR_INTERVAL == 1800
TAF_INTERVAL == 3600
NWS_INTERVAL == 7200
OPENMETEO_INTERVAL == 14400
API_CALL_DELAY == 2
RATE_LIMIT_BACKOFF == 600
StartupDelay == 10
TickSeconds == 60
\* httpx.Client(timeout=10.0) of the METAR, TAF and NWS fetchers
RequestTimeout == 10

PollOrder == <<"metar", "taf", "nws", "openmeteo">>

Interval(source) ==
    CASE source = "metar" -> METAR_INTERVAL
      [] source = "taf" -> TAF_INTERVAL
      [] source = "nws" -> NWS_INTERVAL
      [] source = "openmeteo" -> OPENMETEO_INTERVAL

\* The days from today that a family's sweep covers, in its order.
SweepDays(source) ==
    CASE source = "metar" -> <<0>>
      [] source = "taf" -> <<0, 1>>
      [] source = "nws" -> <<2, 3, 4, 5, 6, 7>>

\* The messages of the exceptions of the retry executor.
ThresholdReached == "Open-Meteo rate limit threshold reached"
ExceededAfterRetries == "API rate limit exceeded after retries"
TimedOutAfterRetries == "API request timed out after retries"

\* A test that knows the limiter's refusal only.
MentionsRateLimitThresholdOnly(message) ==
    message = ThresholdReached

\* 'rate limit' in str(e).lower() or '429' in str(e)
MentionsRateLimit(message) ==
    message \in {ThresholdReached, ExceededAfterRetries}

\* What a poll pass did: the table and the clock it left, the dates it
\* attempted, those whose fetch raised, those it saved, whether it set the
\* cool-down and until when, and the exception that escaped it.
Pass(store, clock, attempted, failed, saved, until, escaped) ==
    [store |-> store, clock |-> clock, attempted |-> attempted, failed |-> failed,
     saved |-> saved, until |-> until, escaped |-> escaped]

\* The provider fetcher a sweep calls for one date.
SweepFetch(source, case, target_date, clock) ==
    CASE source = "metar" -> _fetch_metar_from_api(case.api_token, case.script, target_date, clock)
      [] source = "taf" -> _fetch_taf_from_api(case.api_token, case.script, target_date, clock)
      [] source = "nws" -> _fetch_nws_forecast(case.script, target_date, clock)

\* A save that first drops what the table holds of the family.
SweepSaveRefreshing(store, clock, source, target_date, data, db_up) ==
    LET emptied == {r \in store : r.weather_type # source}
    IN  IF source = "nws"
        THEN _save_to_db(emptied, clock, source, target_date, Serialize(data), "",
                         nws_location[1], nws_location[2], db_up).store
        ELSE _save_to_db(emptied, clock, source, target_date, Serialize(data), default_station,
                         None, None, db_up).store

SweepSave(store, clock, source, target_date, data, db_up) ==
    IF source = "nws"
    THEN _save_to_db(store, clock, source, target_date, Serialize(data), "",
                     nws_location[1], nws_location[2], db_up).store
    ELSE _save_to_db(store, clock, source, target_date, Serialize(data), default_station,
                     None, None, db_up).store

\* The time a fetch waited for answers that never came.
TimedOutFor(fetched) ==
    RequestTimeout * Cardinality({i \in DOMAIN fetched.trace : fetched.trace[i] = "timeout"})

\* A sweep that gives up at the first date that fails.
RECURSIVE SweepAborting(_, _, _, _, _)
SweepAborting(source, local_today, cases, i, pass) ==
    LET days == SweepDays(source)
        target_date == local_today + days[i]
        fetched == SweepFetch(source, cases[i], target_date, pass.clock)
        pause == IF source = "metar" THEN 0 ELSE API_CALL_DELAY
        attempted == pass.attempted \cup {target_date}
    IN  IF i > Len(days) THEN pass
        ELSE IF fetched.raised # ""
             THEN Pass(pass.store, pass.clock, attempted, pass.failed \cup {target_date},
                       pass.saved, None, "")
             ELSE SweepAborting(source, local_today, cases, i + 1,
                      IF fetched.data # NoneData
                      THEN Pass(SweepSave(pass.store, pass.clock, source, target_date,
                                          fetched.data, cases[i].db_up),
                                pass.clock + pause, attempted, pass.failed,
                                pass.saved \cup {target_date}, None, "")
                      ELSE Pass(pass.store, pass.clock + pause, attempted, pass.failed,
                                pass.saved, None, ""))

\* _poll_metar, _poll_taf and _poll_nws from the i-th date of the sweep on:
\* the fetch and the save are inside the try of the date, the sleep after
\* it.  A date takes the time its request waited and the sleep.
RECURSIVE Sweep(_, _, _, _, _)
Sweep(source, local_today, cases, i, pass) ==
    LET days == SweepDays(source)
        target_date == local_today + days[i]
        fetched == SweepFetch(source, cases[i], target_date, pass.clock)
        pause == IF source = "metar" THEN 0 ELSE API_CALL_DELAY
        attempted == pass.attempted \cup {target_date}
    IN  IF i > Len(days) THEN pass
        ELSE Sweep(source, local_today, cases, i + 1,
                   IF fetched.raised # ""
                   THEN Pass(pass.store, pass.clock + TimedOutFor(fetched) + pause, attempted,
                             pass.failed \cup {target_date}, pass.saved, None, "")
                   ELSE IF fetched.data # NoneData
                        THEN Pass(SweepSave(pass.store, pass.clock, source, target_date,
                                            fetched.data, cases[i].db_up),
                                  pass.clock + TimedOutFor(fetched) + pause, attempted, pass.failed,
                                  pass.saved \cup {target_date}, None, "")
                        ELSE Pass(pass.store, pass.clock + TimedOutFor(fetched) + pause, attempted, pass.failed,
                                  pass.saved, None, ""))

\* The saves of one batch: a row per date of the batch.
RECURSIVE SaveBatch(_, _, _, _, _)
SaveBatch(store, clock, weather_type, local_today, days) ==
    IF days = {} THEN store
    ELSE LET d == CHOOSE x \in days : \A y \in days : x <= y
             target_date == local_today + d
         IN  SaveBatch(_save_to_db(store, clock, weather_type, target_date,
                                   Serialize(Parsed(weather_type, target_date, clock)), "",
                                   nws_location[1], nws_location[2], TRUE).store,
                       clock, weather_type, local_today, days \ {d})

\* _poll_openmeteo: the daily batch, a sleep, the hourly batch.  A batch
\* is the exception it raises, "" for none, with its message, and the days
\* it returns.
_poll_openmeteo(store, clock, local_today, daily, hourly) ==
    LET after_daily == IF daily.raised = ""
                       THEN SaveBatch(store, clock, "openmeteo", local_today, daily.days)
                       ELSE store
        later == clock + API_CALL_DELAY
        after_hourly == IF hourly.raised = ""
                        THEN SaveBatch(after_daily, later, "hourly", local_today, hourly.days)
                        ELSE after_daily
        today == {local_today}
    IN  IF daily.raised # "" /\ MentionsRateLimit(daily.message)
        THEN Pass(store, clock, today, today, {}, clock + RATE_LIMIT_BACKOFF, "")
        ELSE IF hourly.raised # "" /\ MentionsRateLimit(hourly.message)
             THEN Pass(after_daily, later, today, today,
                       IF daily.raised = "" THEN today ELSE {},
                       later + RATE_LIMIT_BACKOFF, "")
             ELSE Pass(after_hourly, later, today,
                       IF daily.raised # "" \/ hourly.raised # "" THEN today ELSE {},
                       IF daily.raised = "" \/ hourly.raised = "" THEN today ELSE {},
                       None, "")

\* _poll_source: the pass of the family; input is the cases of its dates,
\* or the two batches.
_poll_source(source, store, clock, input) ==
    LET local_today == LocalToday(clock)
    IN  IF source = "openmeteo"
        THEN _poll_openmeteo(store, clock, local_today, input.daily, input.hourly)
        ELSE Sweep(source, local_today, input.cases, 1,
                   Pass(store, clock, {}, {}, {}, None, ""))

\* The rows of a weather type for a date fetched ttl seconds ago or less.
FreshRows(store, clock, weather_type, local_today, ttl) ==
    {r \in store : /\ r.weather_type = weather_type
                   /\ r.target_date = local_today
                   /\ r.fetched_at >= clock - ttl}

_has_fresh_dataDailyOnly(source, store, clock, local_today) ==
    FreshRows(store, clock, source, local_today, Interval(source)) # {}

_has_fresh_data(source, store, clock, local_today) ==
    IF source = "openmeteo"
    THEN /\ FreshRows(store, clock, "openmeteo", local_today, OPENMETEO_INTERVAL) # {}
         /\ FreshRows(store, clock, "hourly", local_today, OPENMETEO_INTERVAL) # {}
    ELSE FreshRows(store, clock, source, local_today, Interval(source)) # {}

_is_rate_limited(p, clock) ==
    clock < p._rate_limited_until

Poller ==
    th["poller"]

\* The poller after a pass of source that began at began: the cool-down
\* the pass set, last_poll unless the cool-down is on when the pass is
\* over, and the history.
AfterPass(p, source, pass, began, stamp) ==
    LET q == IF pass.until # None THEN [p EXCEPT !._rate_limited_until = pass.until] ELSE p
    IN  [q EXCEPT !.last_poll[source] =
                      IF _is_rate_limited(q, pass.clock) THEN @ ELSE stamp,
                  !.last_success[source] =
                      IF pass.failed = {} /\ pass.escaped = "" THEN began ELSE @,
                  !.last_sweep[source] =
                      IF pass.failed = {} /\ pass.escaped = "" THEN pass.clock ELSE @,
                  !.clean = @ /\ pass.failed = {} /\ pass.until = None,
                  !.polled = @ \cup {source}]

\* Where the loop over the families goes after its i-th family.
Onward(p, i, done) ==
    IF i < Len(PollOrder) THEN [p EXCEPT !.i = i + 1] ELSE [p EXCEPT !.pc = done, !.i = 1]

\* run: the initial delay.
Start ==
    /\ Poller.pc = "start"
    /\ now' = now + StartupDelay
    /\ th' = [th EXCEPT !["poller"].pc = "startup"]
    /\ call' = [op |-> "run"]
    /\ UNCHANGED <<db, steps, wire>>

\* One turn of the loop of _poll_all_sources.
StartupPoll(input) ==
    LET p == Poller
        source == PollOrder[p.i]
        fresh == _has_fresh_data(source, db, now, LocalToday(now))
        pass == _poll_source(source, db, now, input)
    IN  /\ p.pc = "startup"
        /\ IF _is_rate_limited(p, now)
           THEN /\ th' = [th EXCEPT !["poller"] = [p EXCEPT !.pc = "tick", !.i = 1]]
                /\ call' = [op |-> "_poll_all_sources", source |-> source, stopped |-> TRUE,
                            fresh |-> FALSE, polled |-> FALSE]
                /\ UNCHANGED <<now, db>>
           ELSE IF fresh
                THEN /\ th' = [th EXCEPT !["poller"] =
                                  Onward([p EXCEPT !.last_poll[source] = now,
                                                   !.last_success[source] = now],
                                         p.i, "tick")]
                     /\ call' = [op |-> "_poll_all_sources", source |-> source,
                                 stopped |-> FALSE, fresh |-> TRUE, polled |-> FALSE]
                     /\ UNCHANGED <<now, db>>
                ELSE /\ th' = [th EXCEPT !["poller"] =
                                  Onward(AfterPass(p, source, pass, now, pass.clock), p.i, "tick")]
                     /\ call' = [op |-> "_poll_all_sources", source |-> source,
                                 stopped |-> FALSE, fresh |-> FALSE, polled |-> TRUE,
                                 input |-> input, pass |-> pass]
                     /\ db' = pass.store
                     /\ now' = pass.clock
        /\ UNCHANGED <<steps, wire>>

\* The families whose interval has elapsed, or that have no last_poll.
Due(p, clock) ==
    {source \in {"metar", "taf", "nws", "openmeteo"} :
         \/ p.last_poll[source] = None
         \/ clock - p.last_poll[source] >= Interval(source)}

\* The top of the loop of run: the test of the cool-down.
TickBegin ==
    LET p == Poller
        limited == _is_rate_limited(p, now)
    IN  /\ p.pc = "tick"
        /\ th' = [th EXCEPT !["poller"] =
                     [p EXCEPT !.pc = IF limited THEN "sleep" ELSE "due", !.i = 1,
                               !.limited = limited, !.was_limited = p.limited,
                               !.due = Due(p, now), !.polled = {}]]
        /\ call' = [op |-> "_is_rate_limited", ret |-> limited]
        /\ UNCHANGED <<now, db, steps, wire>>

\* _poll_if_due of the i-th family.
PollIfDue(input) ==
    LET p == Poller
        source == PollOrder[p.i]
        due == source \in Due(p, now)
        pass == _poll_source(source, db, now, input)
    IN  /\ p.pc = "due"
        /\ IF due
           THEN /\ th' = [th EXCEPT !["poller"] =
                             Onward(AfterPass(p, source, pass, now, now), p.i, "sleep")]
                /\ call' = [op |-> "_poll_if_due", source |-> source, polled |-> TRUE,
                            input |-> input, pass |-> pass]
                /\ db' = pass.store
                /\ now' = pass.clock
           ELSE /\ th' = [th EXCEPT !["poller"] = Onward(p, p.i, "sleep")]
                /\ call' = [op |-> "_poll_if_due", source |-> source, polled |-> FALSE]
                /\ UNCHANGED <<now, db>>
        /\ UNCHANGED <<steps, wire>>

\* The sleep at the bottom of the loop of run.
Sleep ==
    /\ Poller.pc = "sleep"
    /\ steps < MaxTicks
    /\ now' = now + TickSeconds
    /\ steps' = steps + 1
    /\ th' = [th EXCEPT !["poller"].pc = "tick"]
    /\ call' = [op |-> "tick", limited |-> Poller.limited,
                was_limited |-> Poller.was_limited, due |-> Poller.due,
                polled |-> Poller.polled]
    /\ UNCHANGED <<db, wire>>

(***************************************************************************)
(* The poller's runs: the process starts at the beginning of day 3 with a  *)
(* table that is empty, or holds entries for today some of which are       *)
(* within their TTL (the METAR exactly at its TTL when the poller looks,   *)
(* the TAF just past it, Open-Meteo with its daily entry only), or holds   *)
(* fresh entries of both Open-Meteo types.  Each pass meets upstreams that *)
(* answer every date, or fail some of them, or answer none before the      *)
(* request times out.                                                      *)
(***************************************************************************)
PollStart == PoolClock + StartupDelay

PollStores ==
    { {},
      {StoredRow(1, "metar", LocalToday(PollStart), PollStart - METAR_INTERVAL),
       StoredRow(2, "taf", LocalToday(PollStart), PollStart - TAF_INTERVAL - 1),
       StoredRow(3, "openmeteo", LocalToday(PollStart), PollStart - 60)},
      {StoredRow(1, "nws", LocalToday(PollStart), PollStart - 60),
       StoredRow(2, "openmeteo", LocalToday(PollStart), PollStart - 60),
       StoredRow(3, "hourly", LocalToday(PollStart), PollStart - 60)} }

Failing == PoolCase("token", <<Response("500", "")>>)
Missing == PoolCase("token", <<Response("404", "")>>)
Garbled == PoolCase("token", <<Response("200", "not_json")>>)
Working == PoolCase("token", <<Ok>>)
Silent == PoolCase("token", <<Response("timeout", "")>>)

Batch(raised, message, days) ==
    [raised |-> raised, message |-> message, days |-> days]

\* "Poll OpenMeteo for days 0-15": of the days a batch that answers
\* returns, the first two and the last.
BatchDays == {0, 1, 15}

Answered == Batch("", "", BatchDays)

PollInputs(source) ==
    CASE source = "metar" -> {[cases |-> <<Working>>], [cases |-> <<Failing>>]}
      [] source = "taf" -> {[cases |-> <<Working, Working>>],
                            [cases |-> <<Missing, Failing>>],
                            [cases |-> <<Garbled, Working>>]}
      [] source = "nws" -> {[cases |-> <<Working, Working, Working, Working, Working, Working>>],
                            [cases |-> <<Working, Working, Working, Failing, Working, Working>>],
                            [cases |-> <<Garbled, Working, Working, Working, Working, Failing>>],
                            [cases |-> <<Silent, Silent, Silent, Silent, Silent, Silent>>]}
      [] source = "openmeteo" ->
             {[daily |-> Answered, hourly |-> Answered],
              [daily |-> Batch("RateLimitError", ThresholdReached, {}), hourly |-> Answered],
              [daily |-> Answered,
               hourly |-> Batch("WeatherServiceError", ExceededAfterRetries, {})],
              [daily |-> Batch("WeatherServiceError", TimedOutAfterRetries, {}),
               hourly |-> Answered]}

\* WeatherPoller.__init__
NewPoller ==
    [pc |-> "start", i |-> 1,
     last_poll |-> [source \in {"metar", "taf", "nws", "openmeteo"} |-> None],
     _rate_limited_until |-> 0,
     last_success |-> [source \in {"metar", "taf", "nws", "openmeteo"} |-> None],
     last_sweep |-> [source \in {"metar", "taf", "nws", "openmeteo"} |-> None],
     clean |-> TRUE, limited |-> FALSE, was_limited |-> FALSE, due |-> {}, polled |-> {}]

InitPoll ==
    /\ now = PoolClock
    /\ db \in PollStores
    /\ call = [op |-> "__init__"]
    /\ th = [t \in {"poller"} |-> NewPoller]
    /\ steps = 0
    /\ wire = <<>>

NextPoll ==
    \/ Start
    \/ \E input \in PollInputs(PollOrder[Poller.i]) : StartupPoll(input)
    \/ TickBegin
    \/ \E input \in PollInputs(PollOrder[Poller.i]) : PollIfDue(input)
    \/ Sleep

SpecPoll == InitPoll /\ [][NextPoll]_vars

\* The family has a persisted entry for today fetched within its TTL.
PersistedWithinTtl(source, weather_type) ==
    \E r \in db : /\ r.weather_type = weather_type
                  /\ r.target_date = LocalToday(now)
                  /\ now - r.fetched_at <= Interval(source)

C27_PolledExactlyWhenDueSinceSuccess ==
    [][call'.op = "_poll_if_due"
       => (call'.polled
             <=> \/ Poller.last_success[call'.source] = None
                 \/ now - Poller.last_success[call'.source] >= Interval(call'.source))]_vars

\* C28: at a tick that finds the cool-down on, every family among METAR,
\* TAF and NWS that is due is polled all the same.
C28_CoolDownSuspendsSharedQuotaOnly ==
    [][(call'.op = "tick" /\ call'.limited)
       => (call'.due \cap {"metar", "taf", "nws"}) \subseteq call'.polled]_vars

\* The rows of a weather type for a date.
RowsOf(store, weather_type, target_date) ==
    {r \in store : r.weather_type = weather_type /\ r.target_date = target_date}

\* C29: a sweep of METAR, TAF or NWS attempts every date of the family
\* (one, two, six) whichever of them fail, leaves the entries of a failed
\* date as they were, lets no exception out of the pass, and the loop goes
\* on to its next step.
C29_SweepFailureIsolated ==
    [][(call'.op \in {"_poll_all_sources", "_poll_if_due"}
          /\ call'.polled /\ call'.source # "openmeteo")
       => LET pass == call'.pass
              days == SweepDays(call'.source)
          IN  /\ pass.attempted = {LocalToday(now) + days[i] : i \in DOMAIN days}
              /\ \A target_date \in pass.failed :
                     RowsOf(db', call'.source, target_date)
                         = RowsOf(db, call'.source, target_date)
              /\ pass.failed \cap pass.saved = {}
              /\ pass.escaped = ""
              /\ Poller'.pc \in {"startup", "tick", "due", "sleep"}]_vars

C29_Witness ==
    /\ call.op = "_poll_all_sources"
    /\ call.polled
    /\ call.source = "nws"
    /\ \E failed \in call.pass.failed, saved \in call.pass.saved :
           /\ failed < saved
           /\ RowsOf(db, "nws", failed) = {}
           /\ RowsOf(db, "nws", saved) # {}
    /\ Cardinality(call.pass.saved) = 4

(***************************************************************************)
(* The poller beside the requests of the application: while the poller     *)
(* starts and ticks, a view asks for the METAR or the Open-Meteo forecast  *)
(* of today, with an upstream that answers or refuses, reads the composite *)
(* of today from the table, or the limiter is consulted.                   *)
(***************************************************************************)
Refusing == <<Response("429", "")>>

NextKeep ==
    \/ Start
    \/ \E input \in PollInputs(PollOrder[Poller.i]) : StartupPoll(input)
    \/ TickBegin
    \/ \E input \in PollInputs(PollOrder[Poller.i]) : PollIfDue(input)
    \/ steps < MaxCalls /\ Sleep
    \/ \E script \in {<<Ok>>, <<Response("500", "")>>} :
          steps < MaxCalls /\ _get_metar("", "token", script, TRUE)
    \/ \E script \in {<<Ok>>, Refusing} :
          /\ steps < MaxCalls
          /\ _get_openmeteo_forecast(LocalToday(now), script, 0, TRUE)
          /\ UNCHANGED wire
    \/ steps < MaxCalls /\ GetWeatherFromDb(LocalToday(now), "")
    \/ CheckRateLimit

SpecKeep == InitPoll /\ [][NextKeep]_vars

\* C30: whatever a fetch, a poll pass, a read or a check of the limiter
\* does, and whether it succeeds or fails, every entry of the table is still
\* there afterwards under its key, either as it was or holding a record
\* fetched during that step, with the time of that fetch.
C30_KnownGoodDataKept ==
    [][\A r \in db :
          \E kept \in db' :
              /\ kept.id = r.id
              /\ KeyOf(kept) = KeyOf(r)
              /\ \/ kept = r
                 \/ /\ kept.fetched_at >= now
                    /\ kept.fetched_at <= now'
                    /\ kept.fetched_at > r.fetched_at
                    /\ kept.data.weather_type = r.weather_type
                    /\ kept.data.target_date = r.target_date
                    /\ kept.data.observed_at >= now
                    /\ kept.data.observed_at <= now']_vars

\* A TAF pass whose fetch for today failed has left the stale entry of
\* today in place, and the METAR pass before it has replaced nothing.
C30_Witness ==
    /\ call.op = "_poll_all_sources"
    /\ call.polled
    /\ call.source = "taf"
    /\ LocalToday(now) \in call.pass.attempted \ call.pass.saved
    /\ \E r \in db : /\ r.weather_type = "taf"
                     /\ r.target_date = LocalToday(now)
                     /\ r.fetched_at = PollStart - TAF_INTERVAL - 1

(***************************************************************************)
(* C34.  get_weather_from_db builds its composite from the providers the   *)
(* applicability table gives the date (0: METAR, TAF, NWS, Open-Meteo;     *)
(* 1: TAF, NWS, Open-Meteo; 2..7: NWS, Open-Meteo; 8..15: Open-Meteo;      *)
(* past: historical; beyond 15: none): an entry the table holds for the    *)
(* date, of an applicable provider and of the station or location asked    *)
(* for, is a contributor, and no other provider is.                        *)
(***************************************************************************)
PersistedFor(store, weather_type, target_date, station_in) ==
    \E r \in store :
        /\ r.weather_type = weather_type
        /\ r.target_date = target_date
        /\ IF weather_type \in {"metar", "taf"}
           THEN r.station = Upper(IF station_in # "" THEN station_in ELSE default_station)
           ELSE r.latitude = nws_location[1] /\ r.longitude = nws_location[2]

C34_ReaderFollowsApplicability ==
    [][call'.op = "get_weather_from_db"
       => \A k \in Sources :
              IF k \in Attempted(call'.target_date - LocalToday(now))
              THEN PersistedFor(db, k, call'.target_date, call'.station)
                      => call'.ret # NoneData /\ call'.ret[k] # NoneData
              ELSE call'.ret # NoneData => call'.ret[k] = NoneData]_vars

(***************************************************************************)
(* C37.  The source of a composite is its highest-priority contributor,    *)
(* METAR before TAF before NWS before Open-Meteo before historical, and    *)
(* unavailable when it has no contributor.                                 *)
(***************************************************************************)
TopContributor(c) ==
    LET there == {i \in DOMAIN PoolTypes : c[PoolTypes[i]] # NoneData}
    IN  IF there = {}
        THEN "unavailable"
        ELSE PoolTypes[CHOOSE i \in there : \A j \in there : i <= j]

C37_SourceIsTopContributor ==
    [][(call'.op \in {"get_all_weather_for_date", "get_weather_from_db"}
          /\ call'.ret # NoneData)
       => call'.ret.source = TopContributor(call'.ret)]_vars

(***************************************************************************)
(* C38.  An assessment, of calculate_rc_assessment or of a composite's     *)
(* rc_flying_assessment, is rated good exactly when it gives no reason.    *)
(***************************************************************************)
C38_GoodIffNoReasons ==
    [][/\ call'.op = "calculate_rc_assessment"
          => (call'.ret.rating = "good" <=> call'.ret.reasons = <<>>)
       /\ call'.op = "properties"
          => (call'.rc_flying_assessment.rating = "good"
                <=> call'.rc_flying_assessment.reasons = <<>>)]_vars

Families == {"metar", "taf", "nws", "openmeteo"}

(***************************************************************************)
(* C32.  A startup pass that polled the four families without a failure,   *)
(* begun on local date T, leaves a METAR entry for T, a TAF entry for each *)
(* of T..T+1, an NWS entry for each of T..T+7, an Open-Meteo entry for     *)
(* each day of T..T+15 that the batch holds, and has polled the historical *)
(* family.                                                                 *)
(***************************************************************************)
C32_SweepsCoverApplicability ==
    [][(/\ call'.op = "_poll_all_sources"
        /\ Poller'.pc = "tick"
        /\ Poller'.polled = Families
        /\ Poller'.clean)
       => LET T == LocalToday(now)
          IN  /\ RowsOf(db', "metar", T) # {}
              /\ \A d \in 0..1 : RowsOf(db', "taf", T + d) # {}
              /\ \A d \in 0..7 : RowsOf(db', "nws", T + d) # {}
              /\ \A d \in BatchDays : RowsOf(db', "openmeteo", T + d) # {}
              /\ \E r \in db' : r.weather_type = "historical"]_vars

\* The batch ended in a rate-limit failure: the limiter refused the
\* request, or the upstream answered 429 to the last retry.
RateLimitFailure(batch) ==
    \/ batch.raised = "RateLimitError"
    \/ batch.raised # "" /\ batch.message = ExceededAfterRetries

PolledOpenMeteo(c) ==
    /\ c.op \in {"_poll_all_sources", "_poll_if_due"}
    /\ c.polled
    /\ c.source = "openmeteo"

(***************************************************************************)
(* C33.  A rate-limit failure in an Open-Meteo pass, of the daily or of    *)
(* the hourly batch, starts a cool-down of 600 seconds from the failure    *)
(* and leaves last_poll of the family as it was; no Open-Meteo pass starts *)
(* while the cool-down is on; and the first tick that finds the cool-down  *)
(* over polls the family.                                                  *)
(***************************************************************************)
C33_RateLimitStartsCoolDown ==
    [][/\ (/\ PolledOpenMeteo(call')
           /\ \/ RateLimitFailure(call'.input.daily)
              \/ call'.input.daily.raised = "" /\ RateLimitFailure(call'.input.hourly))
          => /\ Poller'._rate_limited_until - RATE_LIMIT_BACKOFF >= now
             /\ Poller'._rate_limited_until - RATE_LIMIT_BACKOFF <= now'
             /\ Poller'.last_poll["openmeteo"] = Poller.last_poll["openmeteo"]
       /\ PolledOpenMeteo(call') => now >= Poller._rate_limited_until
       /\ (call'.op = "tick" /\ call'.was_limited /\ ~call'.limited)
          => "openmeteo" \in call'.polled]_vars

\* The tick after a cool-down has polled Open-Meteo and the limiter has
\* refused the daily batch: the cool-down is on again.
C33_Witness ==
    /\ call.op = "tick"
    /\ call.was_limited
    /\ ~call.limited
    /\ "openmeteo" \in call.polled
    /\ Poller._rate_limited_until = now - TickSeconds + RATE_LIMIT_BACKOFF
    /\ Poller.last_poll["openmeteo"] = None

\* The time the passes of one tick take when nothing fails: the sleeps of
\* two TAF dates, of six NWS dates and between the two batches.
PassSeconds == (2 + 6 + 1) * API_CALL_DELAY

(***************************************************************************)
(* C39.  While no pass has failed and no cool-down was set, once the       *)
(* startup pass is over the entry for today of each family the poller      *)
(* polls is never older than the family's interval, one tick and the time  *)
(* of a poll pass together.                                                *)
(***************************************************************************)
C39_EntryOfTodayStaysFresh ==
    (Poller.pc \notin {"start", "startup"} /\ Poller.clean)
        => \A r \in db :
               (r.weather_type \in Families /\ r.target_date = LocalToday(now))
                   => now - r.fetched_at <= Interval(r.weather_type) + TickSeconds + PassSeconds

(***************************************************************************)
(* The process restarts: the poller thread is gone with what it held in    *)
(* memory, the table stays, and after the downtime a new WeatherPoller     *)
(* begins with run.  Of the history only last_sweep is carried over.  The  *)
(* process is followed up to the sleep of its first tick.                  *)
(***************************************************************************)
Downtimes == {1, 1700}

Restart(downtime) ==
    /\ steps < MaxRestarts
    /\ steps' = steps + 1
    /\ now' = now + downtime
    /\ th' = [th EXCEPT !["poller"] = [NewPoller EXCEPT !.last_sweep = Poller.last_sweep]]
    /\ call' = [op |-> "restart", downtime |-> downtime]
    /\ UNCHANGED <<db, wire>>

NextRestart ==
    \/ Start
    \/ \E input \in PollInputs(PollOrder[Poller.i]) : StartupPoll(input)
    \/ TickBegin
    \/ \E input \in PollInputs(PollOrder[Poller.i]) : PollIfDue(input)
    \/ \E downtime \in Downtimes : Restart(downtime)

SpecRestart == InitPoll /\ [][NextRestart]_vars

(***************************************************************************)
(* C40.  On a startup less than one interval after the family's last       *)
(* sweep that went without a failure, the startup pass does not poll the   *)
(* family.                                                                 *)
(***************************************************************************)
C40_RestartWithinIntervalSkips ==
    [][(/\ call'.op = "_poll_all_sources"
        /\ ~call'.stopped
        /\ Poller.last_sweep[call'.source] # None
        /\ now - Poller.last_sweep[call'.source] < Interval(call'.source))
       => ~call'.polled]_vars

(***************************************************************************)
(* The process is asked to stop.  start makes the poller thread a daemon   *)
(* and run loops on while True: nothing the request sets is read by the    *)
(* loop.  The main thread, th["main"], takes the request and later leaves; *)
(* when the interpreter exits the daemon thread is abandoned wherever it   *)
(* is.  Until then the poller takes the steps it takes in SpecPoll.        *)
(***************************************************************************)
Main == th["main"]

RequestShutdown ==
    /\ Main.pc = "serving"
    /\ th' = [th EXCEPT !["main"].pc = "stopping"]
    /\ call' = [op |-> "shutdown"]
    /\ UNCHANGED <<now, db, steps, wire>>

Exit ==
    /\ Main.pc = "stopping"
    /\ th' = [th EXCEPT !["main"].pc = "exited", !["poller"].pc = "abandoned"]
    /\ call' = [op |-> "exit", at |-> Poller.pc]
    /\ UNCHANGED <<now, db, steps, wire>>

InitStop ==
    /\ now = PoolClock
    /\ db \in PollStores
    /\ call = [op |-> "__init__"]
    /\ th = [t \in {"poller", "main"} |-> IF t = "poller" THEN NewPoller ELSE [pc |-> "serving"]]
    /\ steps = 0
    /\ wire = <<>>

NextStop ==
    \/ Start
    \/ \E input \in PollInputs(PollOrder[Poller.i]) : StartupPoll(input)
    \/ TickBegin
    \/ \E input \in PollInputs(PollOrder[Poller.i]) : PollIfDue(input)
    \/ steps < MaxSteps /\ Sleep
    \/ RequestShutdown
    \/ Exit

SpecStop == InitStop /\ [][NextStop]_vars

(***************************************************************************)
(* C31.  Once the shutdown is requested the poller begins no new           *)
(* iteration of its loop: the pass in progress may end, but no further     *)
(* tick is begun and no sleep is taken towards one.                        *)
(***************************************************************************)
C31_NoIterationAfterShutdownRequest ==
    [][Main.pc = "stopping" => call'.op \notin {"_is_rate_limited", "tick"}]_vars

(***************************************************************************)
(* weather_poller.start, called by several threads, each up to MaxCalls    *)
(* times.  th["weather_poller"] holds the globals of the module: _started, *)
(* the holder of _lock ("" when free) and, as history, created: the calls *)
(* that made a poller thread.  Each caller is at one point                 *)
(* of start: "idle", "acquire" (at the with), "test" (holding the lock,    *)
(* before if _started), "set" (before _started = True), "release" (leaving *)
(* the with, towards the return or towards the Thread), "thread".          *)
(***************************************************************************)
Callers == {"c1", "c2", "c3"}

Globals == th["weather_poller"]

AcquirableAlways(lock) == TRUE

\* threading.Lock: acquired only when no thread holds it.
Acquirable(lock) == lock = ""

StartCall(t) ==
    /\ th[t].pc = "idle"
    /\ th[t].calls < MaxCalls
    /\ th' = [th EXCEPT ![t].pc = "acquire", ![t].calls = @ + 1]
    /\ call' = [op |-> "start", thread |-> t]
    /\ UNCHANGED <<now, db, steps, wire>>

\* with _lock: __enter__.
StartAcquire(t) ==
    /\ th[t].pc = "acquire"
    /\ Acquirable(Globals._lock)
    /\ th' = [th EXCEPT ![t].pc = "test", !["weather_poller"]._lock = t]
    /\ call' = [op |-> "acquire", thread |-> t]
    /\ UNCHANGED <<now, db, steps, wire>>

\* if _started: return
StartTest(t) ==
    /\ th[t].pc = "test"
    /\ th' = [th EXCEPT ![t].pc = IF Globals._started THEN "release" ELSE "set",
                        ![t].then = IF Globals._started THEN "idle" ELSE "thread"]
    /\ call' = [op |-> "test", thread |-> t, ret |-> Globals._started]
    /\ UNCHANGED <<now, db, steps, wire>>

\* _started = True
StartSet(t) ==
    /\ th[t].pc = "set"
    /\ th' = [th EXCEPT ![t].pc = "release", !["weather_poller"]._started = TRUE]
    /\ call' = [op |-> "set", thread |-> t]
    /\ UNCHANGED <<now, db, steps, wire>>

\* with _lock: __exit__, on the return as at the end of the block.
StartRelease(t) ==
    /\ th[t].pc = "release"
    /\ th' = [th EXCEPT ![t].pc = th[t].then, !["weather_poller"]._lock = ""]
    /\ call' = [op |-> "release", thread |-> t]
    /\ UNCHANGED <<now, db, steps, wire>>

\* threading.Thread(target=_poller_loop, daemon=True).start()
StartThread(t) ==
    /\ th[t].pc = "thread"
    /\ th' = [th EXCEPT ![t].pc = "idle",
                        !["weather_poller"].created = @ \cup {<<t, th[t].calls>>}]
    /\ call' = [op |-> "Thread", thread |-> t]
    /\ UNCHANGED <<now, db, steps, wire>>

InitStart ==
    /\ now = PoolClock
    /\ db = {}
    /\ call = [op |-> "import"]
    /\ th = [t \in Callers \cup {"weather_poller"} |->
                IF t = "weather_poller"
                THEN [_started |-> FALSE, _lock |-> "", created |-> {}]
                ELSE [pc |-> "idle", calls |-> 0, then |-> "idle"]]
    /\ steps = 0
    /\ wire = <<>>

NextStart ==
    \E t \in Callers :
        \/ StartCall(t)
        \/ StartAcquire(t)
        \/ StartTest(t)
        \/ StartSet(t)
        \/ StartRelease(t)
        \/ StartThread(t)

SpecStart == InitStart /\ [][NextStart]_vars

(***************************************************************************)
(* C35.  However many threads call start, and however often, at most one   *)
(* poller thread is created: one call at most goes on to the Thread, the   *)
(* others return at the test of _started.                                  *)
(***************************************************************************)
C35_AtMostOnePollerThread ==
    LET bound == {c \in Callers : \/ th[c].pc \in {"set", "thread"}
                                  \/ th[c].pc = "release" /\ th[c].then = "thread"}
    IN  /\ Cardinality(Globals.created) <= 1
        /\ Cardinality(Globals.created \cup {<<t, th[t].calls>> : t \in bound}) <= 1

\* Every caller has made its calls and returned; one call made the thread.
C35_Witness ==
    /\ \A t \in Callers : th[t].pc = "idle" /\ th[t].calls = MaxCalls
    /\ Cardinality(Globals.created) = 1
    /\ Globals._started

(***************************************************************************)
(* scheduler.py.  th["scheduler"] is the scheduler thread: its point in    *)
(* _scheduler_loop ("start", "wait", "check") and the cache entry          *)
(* scheduler_last_run_cleanup_weather_records, a value with the time it    *)
(* expires (None when never set).  Local time is UTC, as in LocalToday.    *)
(***************************************************************************)
CHECK_INTERVAL == 3600
SCHEDULER_CLEANUP_HOUR == 3
WEATHER_DB_CLEANUP_DAYS == 30
SchedulerDelay == 60
\* 48 * 3600, the timeout set_last_run gives the cache entry.
LastRunTimeout == 172800

Scheduler == th["scheduler"]

Hour(clock) == (clock % SecondsPerDay) \div 3600

\* now.replace(hour=target_hour, minute=0, second=0, microsecond=0)
TodayTarget(clock, target_hour) == LocalToday(clock) * SecondsPerDay + target_hour * 3600

get_last_run(entry, clock) ==
    IF entry.value # None /\ clock < entry.expires THEN entry.value ELSE None

set_last_run(run_time) ==
    [value |-> run_time, expires |-> run_time + LastRunTimeout]

should_run_todayIgnoringLastRun(entry, clock, target_hour) ==
    Hour(clock) >= target_hour

should_run_today(entry, clock, target_hour) ==
    LET last_run == get_last_run(entry, clock)
    IN  IF Hour(clock) < target_hour
        THEN FALSE
        ELSE IF last_run = None
             THEN TRUE
             ELSE last_run < TodayTarget(clock, target_hour)

\* cron.cleanup_weather_records: the rows fetched before the cutoff go.
cleanup_weather_records(store, clock) ==
    {r \in store : r.fetched_at >= clock - WEATHER_DB_CLEANUP_DAYS * SecondsPerDay}

\* _scheduler_loop: the initial delay.
SchedulerStart ==
    /\ Scheduler.pc = "start"
    /\ now' = now + SchedulerDelay
    /\ th' = [th EXCEPT !["scheduler"].pc = "wait"]
    /\ call' = [op |-> "_scheduler_loop"]
    /\ UNCHANGED <<db, steps, wire>>

\* event.wait(CHECK_INTERVAL); the event is never set.
SchedulerWait ==
    /\ Scheduler.pc = "wait"
    /\ steps < MaxTicks
    /\ steps' = steps + 1
    /\ now' = now + CHECK_INTERVAL
    /\ th' = [th EXCEPT !["scheduler"].pc = "check"]
    /\ call' = [op |-> "wait"]
    /\ UNCHANGED <<db, wire>>

\* run_cleanup_weather_records; the cleanup takes the seconds given and
\* ends well or raises.
RunCleanup(outcome, seconds) ==
    LET run == should_run_today(Scheduler.entry, now, SCHEDULER_CLEANUP_HOUR)
        last_run == get_last_run(Scheduler.entry, now)
    IN  /\ Scheduler.pc = "check"
        /\ IF ~run
           THEN /\ th' = [th EXCEPT !["scheduler"].pc = "wait"]
                /\ call' = [op |-> "run_cleanup_weather_records", ran |-> FALSE,
                            last_run |-> last_run, outcome |-> ""]
                /\ UNCHANGED <<now, db>>
           ELSE /\ now' = now + seconds
                /\ call' = [op |-> "run_cleanup_weather_records", ran |-> TRUE,
                            last_run |-> last_run, outcome |-> outcome]
                /\ IF outcome = "deleted"
                   THEN /\ db' = cleanup_weather_records(db, now)
                        /\ th' = [th EXCEPT !["scheduler"].pc = "wait",
                                            !["scheduler"].entry = set_last_run(now')]
                   ELSE /\ db' = db
                        /\ th' = [th EXCEPT !["scheduler"].pc = "wait"]
        /\ UNCHANGED <<steps, wire>>

\* The process starts two hours before a midnight or at ten in the
\* morning, thirty days after the entries of the table were fetched.
SchedulerStarts ==
    {PoolClock + WEATHER_DB_CLEANUP_DAYS * SecondsPerDay + h * 3600 : h \in {-2, 10}}

CleanupOutcomes == {"deleted", "OperationalError"}
CleanupSeconds == {0, 30}

InitScheduler ==
    /\ now \in SchedulerStarts
    /\ db \in PollStores
    /\ call = [op |-> "start"]
    /\ th = [t \in {"scheduler"} |-> [pc |-> "start", entry |-> [value |-> None, expires |-> 0]]]
    /\ steps = 0
    /\ wire = <<>>

NextScheduler ==
    \/ SchedulerStart
    \/ SchedulerWait
    \/ \E outcome \in CleanupOutcomes, seconds \in CleanupSeconds : RunCleanup(outcome, seconds)

SpecScheduler == InitScheduler /\ [][NextScheduler]_vars

====
